---- MODULE Spec2Model ----
(***************************************************************************)
(* Model of the Binance adapter core of NimbusSafeCex:                     *)
(*   - OrderQueueManager (orderQueueManager.ts): the rate-limited dispatch *)
(*     queue, its processing loop and its results buffer;                  *)
(*   - BinanceExchange.placeOrderBatchFast (binance.exchange.ts): the      *)
(*     submit function the queue drives;                                   *)
(*   - BinancePrivateWebsocket (binance.ws-private.ts): the order and     *)
(*     account events of the private stream folded into the store, its    *)
(*     ping and its listen key;                                            *)
(*   - BinanceExchange.start, tick and changePositionMode                  *)
(*     (binance.exchange.ts): startup, the account polling, the mode;      *)
(*   - BinanceExchange.formatCreateOrder (binance.exchange.ts): the        *)
(*     payloads of a placement intent.                                     *)
(*                                                                         *)
(* Time is the millisecond clock read by Date.now().  JavaScript runs one  *)
(* callback at a time, so every action is one run-to-completion piece of   *)
(* code: from a callback's start (or an await's continuation) to the next  *)
(* await.                                                                  *)
(***************************************************************************)
EXTENDS Integers, Sequences, FiniteSets, TLC

VARIABLES
    clock,      \* Date.now(), in ms
    calls,      \* number of enqueueOrders calls made so far
    queue,      \* OrderQueueManager.queue: payloads, each <<call, index>>
    waiters,    \* async-mutex: FIFO of pending acquire() calls; the head holds the lock
    processing, \* OrderQueueManager.processing
    tasks,      \* running startProcessing tasks: task id -> [pc, now, size, wake]
    w10,        \* OrderQueueManager.orderTimestamps10s
    w60,        \* OrderQueueManager.orderTimestamps60s
    batches,    \* log of the batches handed to placeOrderBatchFast: [ids, at]
    inflight,   \* indexes (into batches) of the submissions not yet settled
    results,    \* OrderQueueManager.results
    emitted,    \* batchResolved events: batch index -> the outcome lists emitted for it
    drained,    \* log of getResults calls: [ids, completions]
    stalls,     \* number of event-loop stalls so far
    errors,     \* number of "error" events the manager emitted
    orders,     \* store.orders (private stream)
    isDisposed, \* BaseWebSocket.isDisposed
    fills,      \* number of "fill" events emitted
    msgs,       \* number of messages delivered to onMessage
    lastMsg,    \* the message onMessage handled last, and how many orders it removed
    markets,    \* store.markets: the symbols of the catalog
    positions,  \* store.positions
    balance,    \* store.balance
    tickers,    \* store.tickers: the symbols that have a ticker
    loaded,     \* store.loaded: the names of the flags that are true
    isHedged,   \* store.options.isHedged
    errorEvents,\* number of "error" events the exchange emitted
    startPc,    \* BinanceExchange.start: the step it is awaiting
    tickPc,     \* BinanceExchange.tick: "idle", "fetch" (awaiting) or "timer" (scheduled)
    ticks,      \* number of account fetches issued by tick
    tickLast,   \* how the account fetch of the last tick ended: "none", "ok", "fail"
    modePc,     \* changePositionMode: "idle", or the mode whose request is in flight
    modeCalls,  \* log of changePositionMode calls: [open, sent]
    acctLast,   \* the ACCOUNT_UPDATE handled last and the store as it left it
    acctEvents, \* number of ACCOUNT_UPDATE messages delivered
    keyPc,      \* listen key: "none", "post" (awaiting), "held" or "failed"
    keyTimer,   \* a listen-key renewal timer is pending
    putPc,      \* a listen-key PUT is in flight
    puts,       \* number of listen-key PUTs issued
    socket,     \* the private socket: "none", "connecting" or "open"
    pingTimer,  \* a re-ping timer is pending
    pings,      \* number of pings sent
    echoes,     \* number of ping echoes (id 42) received
    latency,    \* number of store.update({latency}) calls
    intent,     \* the placement intent formatted last
    fmtPayloads, \* the payloads the formatter returned for it
    formats,    \* number of formatter calls made
    placed,     \* log of placeOrdersFast calls: [call, failed, pc, n, returned]
    pingAt,     \* BinancePrivateWebsocket.pingAt: when the last ping was sent
    pingTimeoutId, \* the id of the re-ping timer set last, 0 when undefined
    timeouts,   \* log of the re-ping timers set: id -> [due, state]
    latencyMs,  \* store.latency
    pingLog,    \* the instants at which a ping was sent
    echoLog,    \* log of the echo messages received: [at, sentAt, latency, handled]
    venueLive,  \* the client ids of the orders that are live at the venue
    updates     \* log of updateOrder calls: [pc, order, newOrder, cancelled, posted, newId]

vars == <<clock, calls, queue, waiters, processing, tasks, w10, w60, batches,
          inflight, results, emitted, drained, stalls, errors, orders,
          isDisposed,
          fills, msgs, lastMsg, markets, positions, balance, tickers, loaded,
          isHedged, errorEvents, startPc, tickPc, ticks, tickLast, modePc,
          modeCalls, acctLast,
          acctEvents, keyPc, keyTimer, putPc, puts, socket, pingTimer, pings,
          echoes, latency, intent, fmtPayloads, formats, placed, pingAt,
          pingTimeoutId, timeouts, latencyMs, pingLog, echoLog, venueLive,
          updates>>

queueVars == <<clock, calls, queue, waiters, processing, tasks, w10, w60,
               batches, inflight, results, emitted, drained, stalls, errors>>

wsVars == <<orders, isDisposed, fills, msgs, lastMsg>>

storeVars == <<markets, positions, balance, tickers, loaded, isHedged, errorEvents>>

exchVars == <<startPc, tickPc, ticks, tickLast, modePc, modeCalls, acctLast, acctEvents>>

pingVars == <<pingAt, pingTimeoutId, timeouts, latencyMs, pingLog, echoLog>>

streamVars == <<keyPc, keyTimer, putPc, puts, socket, pingTimer, pings, echoes,
                latency, pingVars>>

updVars == <<venueLive, updates>>

fmtVars == <<intent, fmtPayloads, formats, placed, updVars>>

\* what the queue and the order events of the private stream leave alone
restVars == <<storeVars, exchVars, streamVars, fmtVars>>

----------------------------------------------------------------------------
(* Program constants of the rate limiter.                                  *)

Win10 == 10000
Win60 == 60000
Cap10 == 300
Cap60 == 1200
LotSize == 5
DefaultSleep == 1000
NaNSleep == 1

(* Bounds of the model.                                                    *)

MaxCalls == 3          \* enqueueOrders calls per run of SpecLoop
SubmitCalls == 1       \* enqueueOrders calls per run of Spec
LiveCalls == 2         \* enqueueOrders calls per run of SpecLive
MaxSize == 1           \* small enqueueOrders calls carry 0..MaxSize payloads
BigSize == 6           \* ... or BigSize payloads (more than one lot)
MaxDrains == 2         \* getResults calls per run
MaxStalls == 1         \* periods per run in which time passes with no timer due
StallMs == 400         \* a short such period (the event loop is busy)
StallFlood == 310      \* payloads of the flood of SpecStall
Flood == 1500          \* payloads of the saturation scenario
MaxIds == 2            \* client ids of the private stream's orders
MaxMsgs == 3           \* messages delivered to the private stream per run
MaxTicks == 2          \* account fetches issued by tick per run
MaxAcctEvents == 2     \* ACCOUNT_UPDATE messages delivered per run
MaxModeCalls == 1      \* changePositionMode calls per run
MaxPings == 2          \* pings sent per run
MaxPuts == 2           \* listen-key renewals issued per run
MaxUpdates == 2        \* updateOrder calls per run
MaxEchoes == 3         \* messages of id 42 per run of SpecPing
OpenMs == 1000         \* the socket of SpecPing opens at t = OpenMs
MaxPlacements == 2     \* placeOrdersFast calls per run
MaxFormats == 1        \* formatter calls per run

----------------------------------------------------------------------------
(* Helpers.                                                                *)

Min2(a, b) == IF a <= b THEN a ELSE b

\* Math.ceil(a / b) for a >= 0, b > 0: the delay setTimeout(a / b) waits at least
CeilDiv(a, b) == (a + b - 1) \div b

\* payloads of call c: <<c, 1>> .. <<c, n>>
Payloads(c, n) == [k \in 1..n |-> <<c, k>>]

\* n copies of x
Repeat(x, n) == [k \in 1..n |-> x]

RECURSIVE Flatten(_)
Flatten(ss) == IF ss = <<>> THEN <<>> ELSE Head(ss) \o Flatten(Tail(ss))

Range(s) == {s[i] : i \in DOMAIN s}

Count(s, x) == Cardinality({i \in DOMAIN s : s[i] = x})

----------------------------------------------------------------------------
(* OrderQueueManager.processOrders, orderQueueManager.ts:59-129            *)

\* lines 66-71: timestamps.filter((timestamp) => now - timestamp < win)
Prune(w, now, win) == SelectSeq(w, LAMBDA ts : now - ts < win)

\* lines 77-81: now - Math.min(w10[0], w60[0]) + 1; an empty array gives
\* undefined, Math.min gives NaN and setTimeout(NaN) waits 1 ms
SaturatedSleep(p10, p60, now) ==
    IF p10 = <<>> \/ p60 = <<>> THEN NaNSleep
    ELSE now - Min2(p10[1], p60[1]) + 1

\* faulty variant: the whole queue is one batch
MaxAllowedSizeOfQueue(p10, p60, q) == Len(q)

\* lines 85-90
MaxAllowedSize(p10, p60, q) ==
    Min2(Min2(Cap10 - Len(p10), Cap60 - Len(p60)), Min2(Len(q), LotSize))

\* faulty variant: the loop always sleeps the default second
PacedSleepDefault(a10, a60, now) == DefaultSleep

\* lines 114-127: the paced sleep after a hand-off, rounded up to whole ms
\* (with an empty window the arithmetic is on undefined: NaN, as above)
PacedSleep(a10, a60, now) ==
    IF a10 = <<>> \/ a60 = <<>> THEN NaNSleep ELSE
    LET remainingTime10s == Win10 - (now - a10[1])
        remainingTime60s == Win60 - (now - a60[1])
        remainingLots10s == (Cap10 - Len(a10)) \div LotSize
        remainingLots60s == (Cap60 - Len(a60)) \div LotSize
        sleepTime10s == IF remainingLots10s > 0
                        THEN CeilDiv(remainingTime10s, remainingLots10s)
                        ELSE DefaultSleep
        sleepTime60s == IF remainingLots60s > 0
                        THEN CeilDiv(remainingTime60s, remainingLots60s)
                        ELSE DefaultSleep
    IN  Min2(sleepTime10s, sleepTime60s)

\* lines 63-92: one pass from the top of the while loop to its first await.
\* q, a10, a60 are the queue and the windows as the pass finds them.
LoopTop(q, a10, a60, now) ==
    IF Len(q) = 0
    THEN [pc |-> "ret", now |-> now, size |-> 0, wake |-> 0, w10 |-> a10, w60 |-> a60]
    ELSE LET p10 == Prune(a10, now, Win10)
             p60 == Prune(a60, now, Win60)
         IN  IF Len(p10) >= Cap10 \/ Len(p60) >= Cap60
             THEN [pc |-> "sleep", now |-> now, size |-> 0,
                   wake |-> now + SaturatedSleep(p10, p60, now),
                   w10 |-> p10, w60 |-> p60]
             ELSE [pc |-> "acquire", now |-> now,
                   size |-> MaxAllowedSize(p10, p60, q), wake |-> 0,
                   w10 |-> p10, w60 |-> p60]

TaskOf(r) == [pc |-> r.pc, now |-> r.now, size |-> r.size, wake |-> r.wake]

LoopWaiter(t) == [kind |-> "loop", id |-> t, orders |-> <<>>]

EnqWaiter(c, n) == [kind |-> "enq", id |-> c, orders |-> Payloads(c, n)]

\* the task t moves on as the pass r decided; a pass that reaches line 92
\* calls mutex.acquire()
Continue(t, r, ws) ==
    /\ tasks' = [tasks EXCEPT ![t] = TaskOf(r)]
    /\ w10' = r.w10
    /\ w60' = r.w60
    /\ waiters' = IF r.pc = "acquire" THEN Append(ws, LoopWaiter(t)) ELSE ws

----------------------------------------------------------------------------
(* OrderQueueManager.enqueueOrders, orderQueueManager.ts:23-35             *)

\* line 24: the call reaches `await this.mutex.acquire()`
Call(n, max) ==
    /\ calls < max
    /\ calls' = calls + 1
    /\ waiters' = Append(waiters, EnqWaiter(calls + 1, n))
    /\ UNCHANGED <<clock, queue, processing, tasks, w10, w60, batches, inflight,
                   results, emitted, drained, stalls, errors>>
    /\ UNCHANGED <<wsVars, restVars>>

\* line 24, n times over: a caller makes n calls of one payload each in one
\* synchronous run, on a manager not called before
CallEach(n) ==
    /\ calls = 0
    /\ calls' = n
    /\ waiters' = waiters \o [k \in 1..n |-> EnqWaiter(k, 1)]
    /\ UNCHANGED <<clock, queue, processing, tasks, w10, w60, batches, inflight,
                   results, emitted, drained, stalls, errors>>
    /\ UNCHANGED <<wsVars, restVars>>

\* faulty variant: startProcessing ends after the first return of processOrders
LoopAgainNever(q) == FALSE

\* line 49: while (this.queue.length > 0)
LoopAgain(q) == Len(q) > 0

\* faulty variant: enqueueOrders starts a task without testing the flag
StartsTaskAlways(q) == LoopAgain(q)

\* lines 28-31 with startProcessing (47-57) up to its first await: a task
\* starts when the flag is down and lives on when the queue holds something
StartsTask(q) == ~processing /\ LoopAgain(q)

\* lines 25-34: the critical section of the call at the head of the mutex
Enqueue ==
    /\ waiters # <<>>
    /\ Head(waiters).kind = "enq"
    /\ LET c == Head(waiters).id
           q == queue \o Head(waiters).orders
           r == LoopTop(q, w10, w60, clock)
       IN  /\ queue' = q
           /\ IF StartsTask(q)
              THEN /\ processing' = TRUE
                   /\ tasks' = tasks @@ (c :> TaskOf(r))
                   /\ w10' = r.w10
                   /\ w60' = r.w60
                   /\ waiters' = IF r.pc = "acquire"
                                 THEN Append(Tail(waiters), LoopWaiter(c))
                                 ELSE Tail(waiters)
              ELSE /\ UNCHANGED <<processing, tasks, w10, w60>>
                   /\ waiters' = Tail(waiters)
    /\ UNCHANGED <<clock, calls, batches, inflight, results, emitted, drained, stalls, errors>>
    /\ UNCHANGED <<wsVars, restVars>>

----------------------------------------------------------------------------
(* The processing loop, orderQueueManager.ts:47-129                        *)

\* faulty variant: the batch is taken from the tail of the queue
BatchFromTail(q, n) == SubSeq(q, Len(q) - Min2(n, Len(q)) + 1, Len(q))

\* line 93: this.queue.splice(0, maxAllowedSize), the batch and what is left
Batch(q, n) == SubSeq(q, 1, Min2(n, Len(q)))

Rest(q, n) == SubSeq(q, Min2(n, Len(q)) + 1, Len(q))

\* lines 92-127: the loop holds the mutex: splice the batch, charge it to both
\* windows at the `now` sampled before the await, hand it to the submit
\* function without awaiting it, and go to sleep
Dispatch ==
    /\ waiters # <<>>
    /\ Head(waiters).kind = "loop"
    /\ LET t == Head(waiters).id
           now == tasks[t].now
           batch == Batch(queue, tasks[t].size)
           a10 == w10 \o Repeat(now, Len(batch))
           a60 == w60 \o Repeat(now, Len(batch))
       IN  /\ tasks[t].pc = "acquire"
           /\ queue' = Rest(queue, tasks[t].size)
           /\ w10' = a10
           /\ w60' = a60
           /\ batches' = Append(batches, [ids |-> batch, at |-> clock])
           /\ inflight' = inflight \cup {Len(batches) + 1}
           /\ emitted' = Append(emitted, <<>>)
           /\ tasks' = [tasks EXCEPT ![t] =
                          [pc |-> "sleep", now |-> now, size |-> 0,
                           wake |-> clock + PacedSleep(a10, a60, now)]]
    /\ waiters' = Tail(waiters)
    /\ UNCHANGED <<clock, calls, processing, results, drained, stalls, errors>>
    /\ UNCHANGED <<wsVars, restVars>>

\* lines 60-61, 77-82, 127: the timer of sleep() fires and the while loop of
\* processOrders goes round
TimerFire(t) ==
    /\ t \in DOMAIN tasks
    /\ tasks[t].pc = "sleep"
    /\ clock' = IF clock < tasks[t].wake THEN tasks[t].wake ELSE clock
    /\ Continue(t, LoopTop(queue, w10, w60, clock'), waiters)
    /\ UNCHANGED <<calls, queue, processing, batches, inflight, results, emitted,
                   drained, stalls, errors>>
    /\ UNCHANGED <<wsVars, restVars>>

\* lines 49-56: processOrders returned; startProcessing tests the queue again
\* and either calls processOrders once more or resets the flag and ends
Resume(t) ==
    /\ t \in DOMAIN tasks
    /\ tasks[t].pc = "ret"
    /\ IF LoopAgain(queue)
       THEN /\ Continue(t, LoopTop(queue, w10, w60, clock), waiters)
            /\ UNCHANGED processing
       ELSE /\ processing' = FALSE
            /\ tasks' = [u \in DOMAIN tasks \ {t} |-> tasks[u]]
            /\ UNCHANGED <<w10, w60, waiters>>
    /\ UNCHANGED <<clock, calls, queue, batches, inflight, results, emitted,
                   drained, stalls, errors>>
    /\ UNCHANGED <<wsVars, restVars>>

\* Time passes while no timer is due: the queue is idle, or the event loop is
\* busy with other callbacks while the loop waits for its await to resume.
Elapse(d) ==
    /\ stalls < MaxStalls
    /\ \A t \in DOMAIN tasks : tasks[t].pc # "sleep"
    /\ clock' = clock + d
    /\ stalls' = stalls + 1
    /\ UNCHANGED <<calls, queue, waiters, processing, tasks, w10, w60, batches,
                   inflight, results, emitted, drained, errors>>
    /\ UNCHANGED <<wsVars, restVars>>

----------------------------------------------------------------------------
(* BinanceExchange.placeOrderBatchFast, binance.exchange.ts:961-1016       *)

\* line 962: lodash chunk
RECURSIVE Chunk(_, _)
Chunk(s, n) ==
    IF s = <<>> THEN <<>>
    ELSE <<SubSeq(s, 1, Min2(n, Len(s)))>> \o Chunk(SubSeq(s, Min2(n, Len(s)) + 1, Len(s)), n)

\* What the venue answers to the request made for one lot: the request fails
\* (http = "fail"), or it succeeds and, on the batch endpoint, the body is an
\* array holding one entry per order of the lot, an order ("ok") or an error
\* object ("code"), or the body is no array (array = FALSE: an empty body, a
\* page of a proxy), which line 988 provides for with data?.forEach?.
LotReplies(lot) ==
    IF Len(lot) = 1
    THEN {[http |-> "ok", array |-> FALSE, data |-> <<>>],
          [http |-> "fail", array |-> FALSE, data |-> <<>>]}
    ELSE {[http |-> "fail", array |-> FALSE, data |-> <<>>],
          [http |-> "ok", array |-> FALSE, data |-> <<>>]} \cup
         {[http |-> "ok", array |-> TRUE, data |-> d] :
            d \in {[i \in 1..Len(lot) |-> "ok"],
                   [i \in 1..Len(lot) |-> "code"],
                   [i \in 1..Len(lot) |-> IF i % 2 = 1 THEN "code" ELSE "ok"]}}

RECURSIVE VenueReplies(_)
VenueReplies(lots) ==
    IF lots = <<>> THEN {<<>>}
    ELSE {<<r>> \o rest : r \in LotReplies(Head(lots)), rest \in VenueReplies(Tail(lots))}

\* lines 966-976: a lot of one, the single-order endpoint
SingleResult(lot, reply) ==
    IF reply.http = "ok"
    THEN <<[orderId |-> lot[1], error |-> "null"]>>
    ELSE <<[orderId |-> lot[1], error |-> "msg"]>>

\* lines 978-1010: a lot of several, the batch endpoint; a body that is no
\* array is skipped and no entry is pushed for the lot
BatchResult(lot, reply) ==
    IF reply.http = "ok"
    THEN IF reply.array
         THEN [i \in 1..Len(reply.data) |->
                 [orderId |-> lot[i],
                  error |-> IF reply.data[i] = "code" THEN "code" ELSE "null"]]
         ELSE <<>>
    ELSE [i \in 1..Len(lot) |-> [orderId |-> lot[i], error |-> "msg"]]

LotResult(lot, reply) ==
    IF Len(lot) = 1 THEN SingleResult(lot, reply) ELSE BatchResult(lot, reply)

\* lines 961-1016: the outcome list of a submission; the queue hands over at
\* most LotSize payloads, that is one lot
PlaceOrderBatchFast(payloads, replies) ==
    LET lots == Chunk(payloads, LotSize)
    IN  Flatten([i \in 1..Len(lots) |-> LotResult(lots[i], replies[i])])

----------------------------------------------------------------------------
(* The completion of a submission, orderQueueManager.ts:101-111            *)

\* faulty variant: every id of the outcome list counts as successful
SuccessfulOrderIdsAll(orderResults) ==
    [i \in 1..Len(orderResults) |-> orderResults[i].orderId]

\* lines 103-105
SuccessfulOrderIds(orderResults) ==
    LET ok == SelectSeq(orderResults, LAMBDA r : r.error = "null")
    IN  [i \in 1..Len(ok) |-> ok[i].orderId]

\* faulty variant: an outcome with an error lowers the processing flag
SettledStopsOnError(orderResults) ==
    [results |-> results \o SuccessfulOrderIds(orderResults),
     processing |-> processing /\ \A i \in DOMAIN orderResults :
                                    orderResults[i].error = "null"]

\* lines 102-108: what the .then handler leaves in the manager's fields: the
\* successful ids join the results buffer, the processing flag is not touched
Settled(orderResults) ==
    [results |-> results \o SuccessfulOrderIds(orderResults),
     processing |-> processing]

\* lines 101-108: the promise of batch b resolves (placeOrderBatchFast catches
\* every failure of a request, so it never rejects) and batchResolved is emitted
Resolve(b) ==
    /\ b \in inflight
    /\ \E replies \in VenueReplies(Chunk(batches[b].ids, LotSize)) :
         LET orderResults == PlaceOrderBatchFast(batches[b].ids, replies)
         IN  /\ results' = Settled(orderResults).results
             /\ processing' = Settled(orderResults).processing
             /\ emitted' = [emitted EXCEPT ![b] = Append(@, orderResults)]
    /\ inflight' = inflight \ {b}
    /\ UNCHANGED <<clock, calls, queue, waiters, tasks, w10, w60,
                   batches, drained, stalls, errors>>
    /\ UNCHANGED <<wsVars, restVars>>

\* lines 109-111: the promise of batch b rejects (the manager takes any submit
\* function, lines 14-21) and the .catch handler emits an error
Reject(b) ==
    /\ b \in inflight
    /\ inflight' = inflight \ {b}
    /\ errors' = errors + 1
    /\ UNCHANGED <<clock, calls, queue, waiters, processing, tasks, w10, w60,
                   batches, results, emitted, drained, stalls>>
    /\ UNCHANGED <<wsVars, restVars>>

\* number of submissions settled so far
Completions == Len(batches) - Cardinality(inflight)

\* faulty variant: getResults returns the buffer and keeps it
ResultsKept(buf) == buf

\* OrderQueueManager.getResults, orderQueueManager.ts:41-45: the buffer after
\* the call
ResultsAfterGet(buf) == <<>>

GetResults ==
    /\ Len(drained) < MaxDrains
    /\ drained' = Append(drained, [ids |-> results, completions |-> Completions])
    /\ results' = ResultsAfterGet(results)
    /\ UNCHANGED <<clock, calls, queue, waiters, processing, tasks, w10, w60,
                   batches, inflight, emitted, stalls, errors>>
    /\ UNCHANGED <<wsVars, restVars>>

\* OrderQueueManager.isProcessing, orderQueueManager.ts:37-39
IsProcessing == processing

----------------------------------------------------------------------------
(* The store's open orders (store code outside these sources: the upsert   *)
(* and the removal by client id are the ones the specification describes). *)

\* store.addOrUpdateOrder: replace the order of that id, or append
AddOrUpdateOrder(os, order) ==
    IF \E i \in DOMAIN os : os[i].id = order.id
    THEN [i \in DOMAIN os |-> IF os[i].id = order.id THEN order ELSE os[i]]
    ELSE Append(os, order)

\* store.removeOrder: remove the order of that id
RemoveOrder(os, id) == SelectSeq(os, LAMBDA o : o.id # id)

----------------------------------------------------------------------------
(* BinancePrivateWebsocket, binance.ws-private.ts:37-107                   *)

ClientIds == 1..MaxIds

Statuses == {"NEW", "PARTIALLY_FILLED", "FILLED", "CANCELED", "EXPIRED"}

\* The ORDER_TRADE_UPDATE messages of the venue: status X, client id c, price
\* p, stop price sp, quantity q and filled quantity z (numbers, as parsed by
\* parseFloat), and a message of any other kind.
Messages ==
    [e : {"ORDER_TRADE_UPDATE"}, X : Statuses, c : ClientIds,
     p : {0, 10}, sp : {0, 9}, q : {2}, z : {0, 1}]
    \cup {[e |-> "other", X |-> "NEW", c |-> 1, p |-> 0, sp |-> 0, q |-> 2, z |-> 0]}

NoMsg == [e |-> "none", X |-> "NEW", c |-> 1, removed |-> 0]

\* lines 67: the statuses that emit a fill
Fills(X) == X \in {"PARTIALLY_FILLED", "FILLED"}

\* lines 84-96: the order a NEW event upserts; price is p || sp
NewOrder(data) ==
    [id |-> data.c, status |-> "open",
     price |-> IF data.p # 0 THEN data.p ELSE data.sp,
     amount |-> data.q, filled |-> data.z, remaining |-> data.q - data.z]

\* faulty variant: a FILLED order stays in the store
RemovesUnfilled(X) == X \in {"CANCELED", "EXPIRED"}

\* lines 99-103: the statuses that remove the order
Removes(X) == X \in {"CANCELED", "FILLED", "EXPIRED"}

\* lines 65-107: the store's orders after one event
HandleOrderEvent(os, data) ==
    LET added == IF data.X = "NEW" THEN AddOrUpdateOrder(os, NewOrder(data)) ELSE os
    IN  IF Removes(data.X) THEN RemoveOrder(added, data.c) ELSE added

\* lines 37-56: a message arrives on the socket
OnMessage(m) ==
    /\ msgs < MaxMsgs
    /\ msgs' = msgs + 1
    /\ IF ~isDisposed /\ m.e = "ORDER_TRADE_UPDATE"
       THEN /\ orders' = HandleOrderEvent(orders, m)
            /\ fills' = IF Fills(m.X) THEN fills + 1 ELSE fills
            /\ lastMsg' = [e |-> m.e, X |-> m.X, c |-> m.c,
                           removed |-> Len(orders) - Len(orders')]
       ELSE UNCHANGED <<orders, fills, lastMsg>>
    /\ UNCHANGED isDisposed
    /\ UNCHANGED <<queueVars, restVars>>

\* BaseWebSocket.dispose (outside these sources) raises the flag
Dispose ==
    /\ ~isDisposed
    /\ isDisposed' = TRUE
    /\ UNCHANGED <<orders, fills, msgs, lastMsg>>
    /\ UNCHANGED <<queueVars, restVars>>

----------------------------------------------------------------------------
(* The store's positions and balance (store code outside these sources:    *)
(* update, updatePosition and updateBalance are the ones the specification *)
(* describes), and the venue's names for the sides (binance.types).        *)

\* POSITION_SIDE of binance.types: LONG and SHORT are keys, BOTH is not
PositionSideKeys == {"LONG", "SHORT"}

PositionSideOf(ps) == IF ps = "LONG" THEN "long" ELSE "short"

\* store.updatePosition: merge the changes into the position at index i
UpdatePosition(ps, i, changes) ==
    [ps EXCEPT ![i] = [f \in DOMAIN ps[i] |->
                          IF f \in DOMAIN changes THEN changes[f] ELSE ps[i][f]]]

RECURSIVE SumUsd(_)
SumUsd(assets) ==
    IF assets = <<>> THEN 0 ELSE Head(assets).usdValue + SumUsd(Tail(assets))

\* store.updateBalance: the totals are recomputed from the assets
UpdateBalance(b) == [b EXCEPT !.total = SumUsd(b.assets)]

Abs(x) == IF x < 0 THEN 0 - x ELSE x

NoBalance == [total |-> 0, free |-> 0, used |-> 0, upnl |-> 0, assets |-> <<>>]

----------------------------------------------------------------------------
(* BinanceExchange.fetchBalanceAndPositions, binance.exchange.ts:324-414   *)

\* what the venue lists: the catalog and the tickers
VenueMarkets == {{"BTCUSDT"}, {"BTCUSDT", "BNBUSDT"}}

VenueTickers == {[symbol |-> "BTCUSDT", last |-> 10000],
                 [symbol |-> "BNBUSDT", last |-> 4]}

VenuePosition(s, ps, amt, up) ==
    [symbol |-> s, positionSide |-> ps, positionAmt |-> amt, entryPrice |-> 10,
     unrealizedProfit |-> up, leverage |-> 20, liquidationPrice |-> 5]

\* The positions of an account answer: one BOTH entry per symbol on a one-way
\* account, a LONG and a SHORT entry on a hedged one (the amount of a short
\* is negative), for symbols of the catalog and for others.
VenuePositions ==
    {<<VenuePosition("BTCUSDT", "BOTH", a, 0)>> : a \in {0 - 20, 0, 30}}
    \cup {<<VenuePosition("BTCUSDT", "BOTH", 30, 0 - 1)>>}
    \cup {<<VenuePosition("BTCUSDT", "LONG", a, 0),
            VenuePosition("BTCUSDT", "SHORT", b, 0)>> : a \in {0, 30}, b \in {0 - 20, 0}}
    \cup {<<VenuePosition("OLDUSDT", "BOTH", 30, 0),
            VenuePosition("BTCUSDT", "BOTH", 30, 0)>>}

VenueAssets ==
    {<<[asset |-> "USDT", walletBalance |-> 5]>>,
     <<[asset |-> "USDT", walletBalance |-> 0], [asset |-> "BNB", walletBalance |-> 2]>>,
     <<[asset |-> "USDT", walletBalance |-> 5], [asset |-> "BNB", walletBalance |-> 2]>>}

\* the answers to GET account: the request fails, or it carries the data
AccountReplies ==
    {[http |-> "fail", availableBalance |-> 0, totalInitialMargin |-> 0,
      totalUnrealizedProfit |-> 0, assets |-> <<>>, positions |-> <<>>]}
    \cup [http : {"ok"}, availableBalance : {3}, totalInitialMargin : {2},
          totalUnrealizedProfit : {0}, assets : VenueAssets,
          positions : VenuePositions]

Stable == {"USDC", "USDT", "FDUSD"}

HasTicker(sym) == \E t \in tickers : t.symbol = sym

LastOf(sym) == (CHOOSE t \in tickers : t.symbol = sym).last

\* lines 338-369: the assets with a positive wallet balance
HeldAssets(data) == SelectSeq(data.assets, LAMBDA a : a.walletBalance > 0)

\* lines 347-352: a held asset that is no stablecoin and has no ticker throws
TickerMissing(data) ==
    \E i \in DOMAIN HeldAssets(data) :
        /\ HeldAssets(data)[i].asset \notin Stable
        /\ ~HasTicker(HeldAssets(data)[i].asset \o "USDT")

\* lines 330-369
BalanceOf(data) ==
    LET held == HeldAssets(data)
        assets == [i \in DOMAIN held |->
                     [symbol |-> held[i].asset,
                      walletBalance |-> held[i].walletBalance,
                      usdValue |-> IF held[i].asset \in Stable
                                   THEN held[i].walletBalance
                                   ELSE LastOf(held[i].asset \o "USDT")
                                          * held[i].walletBalance]]
    IN  [total |-> SumUsd(assets), free |-> data.availableBalance,
         used |-> data.totalInitialMargin, upnl |-> data.totalUnrealizedProfit,
         assets |-> assets]

\* line 397: contracts: Math.abs(contracts)
ContractsOf(amt) == Abs(amt)

\* lines 374-400
PositionsOf(data) ==
    LET supported == SelectSeq(data.positions, LAMBDA p : p.symbol \in markets)
    IN  [i \in DOMAIN supported |->
           LET p == supported[i]
           IN  [symbol |-> p.symbol,
                side |-> IF p.positionSide \in PositionSideKeys
                         THEN PositionSideOf(p.positionSide)
                         ELSE IF p.positionAmt > 0 THEN "long" ELSE "short",
                entryPrice |-> p.entryPrice,
                notional |-> Abs(p.positionAmt * p.entryPrice + p.unrealizedProfit),
                leverage |-> p.leverage,
                unrealizedPnl |-> p.unrealizedProfit,
                contracts |-> ContractsOf(p.positionAmt),
                liquidationPrice |-> p.liquidationPrice]]

\* faulty variant: a failed fetch returns an empty account
FallbackEmpty(ps, b) == [positions |-> <<>>, balance |-> NoBalance]

\* lines 406-413: the catch block returns what the store holds
Fallback(ps, b) == [positions |-> ps, balance |-> b]

\* lines 324-414: what the call returns, and whether it emitted an error
FetchBalanceAndPositions(data) ==
    IF data.http = "fail" \/ TickerMissing(data)
    THEN [failed |-> TRUE, positions |-> Fallback(positions, balance).positions,
          balance |-> Fallback(positions, balance).balance]
    ELSE [failed |-> FALSE, positions |-> PositionsOf(data), balance |-> BalanceOf(data)]

----------------------------------------------------------------------------
(* BinancePrivateWebsocket.handleAccountEvents, binance.ws-private.ts:109-157 *)

AccountSlot(s, ps, pa, ep, up) == [s |-> s, ps |-> ps, pa |-> pa, ep |-> ep, up |-> up]

\* The ACCOUNT_UPDATE events of the venue: position slots (the amount of a
\* short is negative) and balance slots, for stored and for unknown entries.
AccountEvents ==
    [P : {<<AccountSlot("BTCUSDT", "LONG", 50, 11, 1)>>,
          <<AccountSlot("BTCUSDT", "SHORT", 0 - 10, 11, 1)>>,
          <<AccountSlot("BTCUSDT", "BOTH", 0 - 10, 11, 0)>>,
          <<AccountSlot("BTCUSDT", "LONG", 50, 11, 0),
            AccountSlot("BTCUSDT", "SHORT", 0 - 10, 12, 0)>>,
          <<AccountSlot("OLDUSDT", "LONG", 50, 11, 0)>>},
     B : {<<>>}]
    \cup [P : {<<>>, <<AccountSlot("BTCUSDT", "LONG", 0, 0, 0)>>},
          B : {<<[a |-> "USDT", wb |-> 7]>>, <<[a |-> "ETH", wb |-> 1]>>}]

NoAccount ==
    [seen |-> FALSE, twice |-> FALSE, ev |-> [P |-> <<>>, B |-> <<>>],
     once |-> <<<<>>, NoBalance>>, after |-> <<<<>>, NoBalance>>]

\* faulty variant: the first stored position of that symbol, whatever its side
FindPositionOfSymbol(ps, slot) ==
    LET hits == {i \in DOMAIN ps : ps[i].symbol = slot.s}
    IN  IF hits = {} THEN 0 ELSE CHOOSE i \in hits : \A j \in hits : i <= j

\* lines 116-120: the index of the first stored position of that symbol and
\* side, 0 when there is none (a ps that is no key of POSITION_SIDE has no side)
FindPosition(ps, slot) ==
    LET hits == {i \in DOMAIN ps :
                    /\ slot.ps \in PositionSideKeys
                    /\ ps[i].symbol = slot.s
                    /\ ps[i].side = PositionSideOf(slot.ps)}
    IN  IF hits = {} THEN 0 ELSE CHOOSE i \in hits : \A j \in hits : i <= j

\* faulty variant: the amount of the slot is added to the stored contracts
SlotChangesAdded(old, slot) ==
    [entryPrice |-> slot.ep, contracts |-> old.contracts + slot.pa,
     notional |-> (old.contracts + slot.pa) * slot.ep + slot.up,
     unrealizedPnl |-> slot.up]

\* lines 123-132: the fields a slot sets on the position it matches
SlotChanges(old, slot) ==
    [entryPrice |-> slot.ep, contracts |-> slot.pa,
     notional |-> slot.pa * slot.ep + slot.up, unrealizedPnl |-> slot.up]

\* lines 114-134
RECURSIVE ApplyPositionSlots(_, _)
ApplyPositionSlots(ps, slots) ==
    IF slots = <<>> THEN ps
    ELSE LET i == FindPosition(ps, Head(slots))
             next == IF i = 0 THEN ps
                     ELSE UpdatePosition(ps, i, SlotChanges(ps[i], Head(slots)))
         IN  ApplyPositionSlots(next, Tail(slots))

\* lines 137-153
RECURSIVE ApplyBalanceSlots(_, _)
ApplyBalanceSlots(assets, slots) ==
    IF slots = <<>> THEN assets
    ELSE LET hits == {i \in DOMAIN assets : assets[i].symbol = Head(slots).a}
             next == IF hits = {} THEN assets
                     ELSE LET i == CHOOSE k \in hits : \A j \in hits : k <= j
                          IN  [assets EXCEPT ![i].walletBalance = Head(slots).wb]
         IN  ApplyBalanceSlots(next, Tail(slots))

\* lines 109-157: the store's positions and balance after one event
HandleAccountEvent(ps, b, ev) ==
    <<ApplyPositionSlots(ps, ev.P),
      UpdateBalance([b EXCEPT !.assets = ApplyBalanceSlots(b.assets, ev.B)])>>

\* binance.ws-private.ts:37-41: an ACCOUNT_UPDATE message arrives on the socket
OnAccountMessage(ev) ==
    /\ acctEvents < MaxAcctEvents
    /\ acctEvents' = acctEvents + 1
    /\ IF ~isDisposed
       THEN LET after == HandleAccountEvent(positions, balance, ev)
            IN  /\ positions' = after[1]
                /\ balance' = after[2]
                /\ acctLast' =
                     [seen |-> TRUE,
                      twice |-> /\ acctLast.seen
                                /\ acctLast.ev = ev
                                /\ acctLast.after = <<positions, balance>>,
                      ev |-> ev, once |-> acctLast.after, after |-> after]
       ELSE UNCHANGED <<positions, balance, acctLast>>
    /\ UNCHANGED <<markets, tickers, loaded, isHedged, errorEvents>>
    /\ UNCHANGED <<startPc, tickPc, ticks, tickLast, modePc, modeCalls>>
    /\ UNCHANGED <<queueVars, wsVars, streamVars, fmtVars>>

----------------------------------------------------------------------------
(* BinanceExchange.tick, binance.exchange.ts:159-180                       *)

\* lines 159-162 on the timer of loop(): a disposed exchange stops ticking,
\* another one issues the account request
TickTimer ==
    /\ tickPc = "timer"
    /\ IF isDisposed
       THEN /\ tickPc' = "idle"
            /\ UNCHANGED ticks
       ELSE /\ ticks < MaxTicks
            /\ tickPc' = "fetch"
            /\ ticks' = ticks + 1
    /\ UNCHANGED <<startPc, tickLast, modePc, modeCalls, acctLast, acctEvents>>
    /\ UNCHANGED <<queueVars, wsVars, storeVars, streamVars, fmtVars>>

\* lines 162-178: the account request of the tick ends; start(), when it
\* awaits this tick (lines 142-148), goes on to fetch the open orders
TickDone(data) ==
    /\ tickPc = "fetch"
    /\ LET r == FetchBalanceAndPositions(data)
       IN  /\ tickLast' = IF r.failed THEN "fail" ELSE "ok"
           /\ errorEvents' = IF r.failed THEN errorEvents + 1 ELSE errorEvents
           /\ IF isDisposed
              THEN /\ tickPc' = "idle"
                   /\ UNCHANGED <<positions, balance, loaded>>
              ELSE /\ tickPc' = "timer"
                   /\ positions' = r.positions
                   /\ balance' = r.balance
                   /\ loaded' = loaded \cup {"balance", "positions"}
    /\ startPc' = IF startPc = "tick"
                  THEN IF isDisposed THEN "done" ELSE "orders"
                  ELSE startPc
    /\ UNCHANGED <<markets, tickers, isHedged>>
    /\ UNCHANGED <<ticks, modePc, modeCalls, acctLast, acctEvents>>
    /\ UNCHANGED <<queueVars, wsVars, streamVars, fmtVars>>

----------------------------------------------------------------------------
(* BinanceExchange.changePositionMode, binance.exchange.ts:500-517         *)

\* line 501: positions.filter((p) => p.contracts > 0).length > 0
BlocksMode(ps) == \E i \in DOMAIN ps : ps[i].contracts > 0

\* lines 500-512: the call up to its await
ChangePositionMode(hedged) ==
    /\ Len(modeCalls) < MaxModeCalls
    /\ modePc = "idle"
    /\ IF BlocksMode(positions)
       THEN /\ errorEvents' = errorEvents + 1
            /\ UNCHANGED modePc
       ELSE /\ modePc' = IF hedged THEN "true" ELSE "false"
            /\ UNCHANGED errorEvents
    /\ modeCalls' = Append(modeCalls,
                           [open |-> \E i \in DOMAIN positions :
                                        positions[i].contracts # 0,
                            sent |-> ~BlocksMode(positions)])
    /\ UNCHANGED <<markets, positions, balance, tickers, loaded, isHedged>>
    /\ UNCHANGED <<startPc, tickPc, ticks, tickLast, acctLast, acctEvents>>
    /\ UNCHANGED <<queueVars, wsVars, streamVars, fmtVars>>

\* lines 510-516: the venue accepts the request or refuses it
ModeDone(ok) ==
    /\ modePc # "idle"
    /\ modePc' = "idle"
    /\ IF ok
       THEN /\ isHedged' = (modePc = "true")
            /\ UNCHANGED errorEvents
       ELSE /\ errorEvents' = errorEvents + 1
            /\ UNCHANGED isHedged
    /\ UNCHANGED <<markets, positions, balance, tickers, loaded>>
    /\ UNCHANGED <<startPc, tickPc, ticks, tickLast, modeCalls, acctLast, acctEvents>>
    /\ UNCHANGED <<queueVars, wsVars, streamVars, fmtVars>>

----------------------------------------------------------------------------
(* The private stream's connection, ping and listen key,                   *)
(* binance.ws-private.ts:15-63 and 159-170                                 *)

\* faulty variant: the renewal runs whether disposed or not
RenewsAlways(disposed) == TRUE

\* line 166: if (!this.isDisposed)
Renews(disposed) == ~disposed

\* lines 15-17 and 159-160: connectAndSubscribe asks for a listen key unless
\* disposed
KeyAfterConnect(disposed, pc) == IF disposed THEN pc ELSE "post"

\* lines 160-162 and 19-27: the POST of the listen key ends; with a key the
\* renewal timer is set and the socket is created, without one the call throws
KeyPosted(ok) ==
    /\ keyPc = "post"
    /\ IF ok
       THEN /\ keyPc' = "held"
            /\ keyTimer' = TRUE
            /\ socket' = "connecting"
       ELSE /\ keyPc' = "failed"
            /\ UNCHANGED <<keyTimer, socket>>
    /\ UNCHANGED <<putPc, puts, pingTimer, pings, echoes, latency>>
    /\ UNCHANGED pingVars
    /\ UNCHANGED <<queueVars, wsVars, storeVars, exchVars, fmtVars>>

\* lines 165-167: the renewal timer fires
KeyTimerFire ==
    /\ keyTimer
    /\ keyTimer' = FALSE
    /\ IF Renews(isDisposed)
       THEN /\ puts < MaxPuts
            /\ putPc' = TRUE
            /\ puts' = puts + 1
       ELSE UNCHANGED <<putPc, puts>>
    /\ UNCHANGED <<keyPc, socket, pingTimer, pings, echoes, latency>>
    /\ UNCHANGED pingVars
    /\ UNCHANGED <<queueVars, wsVars, storeVars, exchVars, fmtVars>>

\* lines 167-168: the PUT ends; after a success the next timer is set, a
\* failure is thrown out of updateListenKey before line 168
PutDone(ok) ==
    /\ putPc
    /\ putPc' = FALSE
    /\ keyTimer' = ok
    /\ UNCHANGED <<keyPc, puts, socket, pingTimer, pings, echoes, latency>>
    /\ UNCHANGED pingVars
    /\ UNCHANGED <<queueVars, wsVars, storeVars, exchVars, fmtVars>>

\* lines 58-63: ping sends unless disposed
PingsSent(disposed, n) == IF disposed THEN n ELSE n + 1

\* lines 31-35: the socket opens
OnOpen ==
    /\ socket = "connecting"
    /\ socket' = "open"
    /\ pings' = IF isDisposed THEN pings ELSE PingsSent(isDisposed, pings)
    /\ UNCHANGED <<keyPc, keyTimer, putPc, puts, pingTimer, echoes, latency>>
    /\ UNCHANGED pingVars
    /\ UNCHANGED <<queueVars, wsVars, storeVars, exchVars, fmtVars>>

\* lines 38 and 44-54: the echo of a ping arrives: the latency is stored and
\* the re-ping timer is set anew
OnEcho ==
    /\ socket = "open"
    /\ echoes < pings
    /\ echoes' = echoes + 1
    /\ IF ~isDisposed
       THEN /\ latency' = latency + 1
            /\ pingTimer' = TRUE
       ELSE UNCHANGED <<latency, pingTimer>>
    /\ UNCHANGED <<keyPc, keyTimer, putPc, puts, socket, pings>>
    /\ UNCHANGED pingVars
    /\ UNCHANGED <<queueVars, wsVars, storeVars, exchVars, fmtVars>>

\* lines 53 and 58-63: the re-ping timer fires
PingTimerFire ==
    /\ pingTimer
    /\ pingTimer' = FALSE
    /\ pings' = PingsSent(isDisposed, pings)
    /\ pings' <= MaxPings
    /\ UNCHANGED <<keyPc, keyTimer, putPc, puts, socket, echoes, latency>>
    /\ UNCHANGED pingVars
    /\ UNCHANGED <<queueVars, wsVars, storeVars, exchVars, fmtVars>>

----------------------------------------------------------------------------
(* The ping protocol in time, binance.ws-private.ts:31-63.  performance.now *)
(* is the clock; a timer fires when it is due.                             *)

\* line 53: setTimeout(() => this.ping(), 10_000)
RePingMs == 10000

\* the re-ping timers that are set and have neither fired nor been cleared
PendingTimeouts == {i \in DOMAIN timeouts : timeouts[i].state = "pending"}

\* line 46: Math.round(diff / 2), of a whole number of ms
RoundHalf(diff) == (diff + 1) \div 2

\* faulty variant: the timer set before is left running
KeepTimeout(ts, id) == ts

\* lines 48-51: clearTimeout(this.pingTimeoutId); a timer that has fired is
\* not touched
ClearTimeout(ts, id) ==
    IF id # 0 /\ ts[id].state = "pending"
    THEN [ts EXCEPT ![id].state = "cleared"]
    ELSE ts

\* lines 58-63: ping records the instant and sends, unless disposed
Ping(now) ==
    IF ~isDisposed
    THEN /\ pingAt' = now
         /\ pingLog' = Append(pingLog, now)
         /\ pings' = PingsSent(isDisposed, pings)
    ELSE UNCHANGED <<pingAt, pingLog, pings>>

\* lines 31-35: the socket opens OpenMs after it was created
OnOpenAt ==
    /\ socket = "connecting"
    /\ socket' = "open"
    /\ clock' = clock + OpenMs
    /\ Ping(clock')
    /\ UNCHANGED <<pingTimeoutId, timeouts, latencyMs, echoLog>>
    /\ UNCHANGED <<keyPc, keyTimer, putPc, puts, pingTimer, echoes, latency>>
    /\ UNCHANGED <<calls, queue, waiters, processing, tasks, w10, w60, batches,
                   inflight, results, emitted, drained, stalls, errors>>
    /\ UNCHANGED <<wsVars, storeVars, exchVars, fmtVars>>

\* lines 37-38 and 44-54: a message of id 42 arrives d ms after the last
\* event, no timer being due before it; the handler does not ask whether a
\* ping is outstanding
OnEchoAfter(d) ==
    /\ socket = "open"
    /\ Len(echoLog) < MaxEchoes
    /\ \A i \in PendingTimeouts : timeouts[i].due >= clock + d
    /\ clock' = clock + d
    /\ echoes' = echoes + 1
    /\ IF ~isDisposed
       THEN /\ latencyMs' = RoundHalf(clock' - pingAt)
            /\ latency' = latency + 1
            /\ timeouts' = Append(ClearTimeout(timeouts, pingTimeoutId),
                                  [due |-> clock' + RePingMs, state |-> "pending"])
            /\ pingTimeoutId' = Len(timeouts) + 1
            /\ pingTimer' = TRUE
       ELSE UNCHANGED <<latencyMs, latency, timeouts, pingTimeoutId, pingTimer>>
    /\ echoLog' = Append(echoLog, [at |-> clock', sentAt |-> pingAt,
                                   latency |-> latencyMs',
                                   handled |-> ~isDisposed])
    /\ UNCHANGED <<pingAt, pingLog>>
    /\ UNCHANGED <<keyPc, keyTimer, putPc, puts, socket, pings>>
    /\ UNCHANGED <<calls, queue, waiters, processing, tasks, w10, w60, batches,
                   inflight, results, emitted, drained, stalls, errors>>
    /\ UNCHANGED <<wsVars, storeVars, exchVars, fmtVars>>

\* lines 53 and 58-63: the pending timer that is due first fires
PingTimeout ==
    /\ PendingTimeouts # {}
    /\ LET i == CHOOSE j \in PendingTimeouts :
                    \A k \in PendingTimeouts : timeouts[j].due <= timeouts[k].due
       IN  /\ clock' = IF clock < timeouts[i].due THEN timeouts[i].due ELSE clock
           /\ timeouts' = [timeouts EXCEPT ![i].state = "fired"]
           /\ pingTimer' = (PendingTimeouts \ {i} # {})
    /\ Ping(clock')
    /\ UNCHANGED <<pingTimeoutId, latencyMs, echoLog>>
    /\ UNCHANGED <<keyPc, keyTimer, putPc, puts, socket, echoes, latency>>
    /\ UNCHANGED <<calls, queue, waiters, processing, tasks, w10, w60, batches,
                   inflight, results, emitted, drained, stalls, errors>>
    /\ UNCHANGED <<wsVars, storeVars, exchVars, fmtVars>>

----------------------------------------------------------------------------
(* BinanceExchange.start, binance.exchange.ts:108-157                      *)

\* line 111: start is called
StartCall ==
    /\ startPc = "idle"
    /\ startPc' = "markets"
    /\ UNCHANGED <<tickPc, ticks, tickLast, modePc, modeCalls, acctLast, acctEvents>>
    /\ UNCHANGED <<queueVars, wsVars, storeVars, streamVars, fmtVars>>

\* lines 111-121 (fetchMarkets, 182-275): the catalog arrives, or the request
\* fails and fetchMarkets returns what the store holds
MarketsDone(ok, catalog) ==
    /\ startPc = "markets"
    /\ errorEvents' = IF ok THEN errorEvents ELSE errorEvents + 1
    /\ IF isDisposed
       THEN /\ startPc' = "done"
            /\ UNCHANGED <<markets, loaded>>
       ELSE /\ startPc' = "tickers"
            /\ markets' = IF ok THEN catalog ELSE markets
            /\ loaded' = loaded \cup {"markets"}
    /\ UNCHANGED <<positions, balance, tickers, isHedged>>
    /\ UNCHANGED <<tickPc, ticks, tickLast, modePc, modeCalls, acctLast, acctEvents>>
    /\ UNCHANGED <<queueVars, wsVars, streamVars, fmtVars>>

\* lines 121-138 (fetchTickers, 277-322): the tickers of the catalog arrive,
\* or the store's; the streams are connected and the position mode is asked
TickersDone(ok) ==
    /\ startPc = "tickers"
    /\ errorEvents' = IF ok THEN errorEvents ELSE errorEvents + 1
    /\ IF isDisposed
       THEN /\ startPc' = "done"
            /\ UNCHANGED <<tickers, loaded, keyPc>>
       ELSE /\ startPc' = "mode"
            /\ tickers' = IF ok THEN {t \in VenueTickers : t.symbol \in markets}
                                ELSE tickers
            /\ loaded' = loaded \cup {"tickers"}
            /\ keyPc' = KeyAfterConnect(isDisposed, keyPc)
    /\ UNCHANGED <<markets, positions, balance, isHedged>>
    /\ UNCHANGED <<tickPc, ticks, tickLast, modePc, modeCalls, acctLast, acctEvents>>
    /\ UNCHANGED <<keyTimer, putPc, puts, socket, pingTimer, pings, echoes, latency>>
    /\ UNCHANGED pingVars
    /\ UNCHANGED <<queueVars, wsVars, fmtVars>>

\* lines 138-142 (fetchPositionMode, 495-498): the mode arrives and is set,
\* then the first tick is called (159-162); a failed request throws out of start
PositionModeDone(reply) ==
    /\ startPc = "mode"
    /\ IF reply = "fail"
       THEN /\ startPc' = "failed"
            /\ UNCHANGED <<isHedged, tickPc, ticks>>
       ELSE /\ isHedged' = (reply = "true")
            /\ IF isDisposed
               THEN /\ startPc' = "done"
                    /\ UNCHANGED <<tickPc, ticks>>
               ELSE /\ startPc' = "tick"
                    /\ tickPc' = "fetch"
                    /\ ticks' = ticks + 1
    /\ UNCHANGED <<markets, positions, balance, tickers, loaded, errorEvents>>
    /\ UNCHANGED <<tickLast, modePc, modeCalls, acctLast, acctEvents>>
    /\ UNCHANGED <<queueVars, wsVars, streamVars, fmtVars>>

\* the open orders the venue lists (fetchOrders, lines 422-438)
VenueOrders ==
    <<[id |-> 1, status |-> "open", price |-> 10, amount |-> 2, filled |-> 0,
       remaining |-> 2]>>

\* lines 148-156 (fetchOrders, 416-445): the open orders arrive, or the store's
OrdersDone(ok) ==
    /\ startPc = "orders"
    /\ startPc' = "done"
    /\ errorEvents' = IF ok THEN errorEvents ELSE errorEvents + 1
    /\ IF isDisposed
       THEN UNCHANGED <<orders, loaded>>
       ELSE /\ orders' = IF ok THEN VenueOrders ELSE orders
            /\ loaded' = loaded \cup {"orders"}
    /\ UNCHANGED <<markets, positions, balance, tickers, isHedged>>
    /\ UNCHANGED <<tickPc, ticks, tickLast, modePc, modeCalls, acctLast, acctEvents>>
    /\ UNCHANGED <<isDisposed, fills, msgs, lastMsg>>
    /\ UNCHANGED <<queueVars, streamVars, fmtVars>>

----------------------------------------------------------------------------
(* BinanceExchange.formatCreateOrder, binance.exchange.ts:765-925          *)
(* Prices and amounts are counted in hundredths; a field value of 0 (or    *)
(* "none", or FALSE for a flag) is a field the payload does not carry, as  *)
(* omitUndefined drops what is undefined.  A quantity, price or stopPrice  *)
(* is the number its decimal string denotes.                               *)

\* the market of a listed symbol: precision.price 0.1, precision.amount 0.1,
\* limits.amount.max 100
MarketOf(symbol) ==
    [symbol |-> symbol, pPrice |-> 10, pAmount |-> 10, maxSize |-> 10000]

\* utils adjust (outside these sources): the value snapped down to the step
Adjust(value, step) == (value \div step) * step

\* inverseObj(ORDER_SIDE) of binance.types
OrderSideOf(side) == IF side = "Buy" THEN "BUY" ELSE "SELL"

OrderTypes == {"Limit", "Market", "StopLoss", "TakeProfit", "TrailingStopLoss"}

\* The placement intents: price, stopLoss and takeProfit may be absent (0);
\* amounts below the step, off the step, above the market's max.  Attached
\* stops go with Limit and Market intents; an unlisted symbol is tried once
\* per type.
Intents ==
    {o \in [symbol : {"BTCUSDT", "XRPUSDT"}, type : OrderTypes,
            side : {"Buy", "Sell"}, price : {0, 10005},
            amount : {5, 120, 20000, 25035}, reduceOnly : BOOLEAN,
            stopLoss : {0, 9500, 9505}, takeProfit : {0, 11000}] :
        /\ o.symbol = "XRPUSDT" =>
              /\ o.side = "Buy" /\ o.price = 10005 /\ o.amount = 120
              /\ ~o.reduceOnly /\ o.stopLoss = 0 /\ o.takeProfit = 0
        /\ o.type \notin {"Limit", "Market"} => o.stopLoss = 0 /\ o.takeProfit = 0
        /\ o.type = "TrailingStopLoss" => o.amount = 120 /\ ~o.reduceOnly
        /\ o.takeProfit # 0 => o.stopLoss \in {0, 9500}}

\* lines 906-925
GetOrderPositionSide(hedged, opts) ==
    LET own == IF opts.side = "Buy" THEN "LONG" ELSE "SHORT"
        flips == \/ opts.type \in {"StopLoss", "TakeProfit", "TrailingStopLoss"}
                 \/ opts.reduceOnly
    IN  IF ~hedged THEN "BOTH"
        ELSE IF flips THEN (IF own = "LONG" THEN "SHORT" ELSE "LONG")
        ELSE own

\* faulty variant: the attached order keeps the side of the intent
SameSide(side) == OrderSideOf(side)

\* lines 833-835 and 846-848: the attached order is on the other side
OppositeSide(side) == OrderSideOf(IF side = "Buy" THEN "Sell" ELSE "Buy")

\* lines 804-814: the request skeleton
Request(hedged, opts) ==
    LET market == MarketOf(opts.symbol)
        isStopOrTP == opts.type \in {"StopLoss", "TakeProfit"}
        amount == Adjust(opts.amount, market.pAmount)
        price == IF opts.price # 0 /\ opts.type # "Market"
                 THEN Adjust(opts.price, market.pPrice) ELSE 0
        reduceOnly == ~hedged /\ opts.reduceOnly
    IN  [symbol |-> opts.symbol,
         positionSide |-> GetOrderPositionSide(hedged, opts),
         side |-> OrderSideOf(opts.side),
         type |-> opts.type,
         quantity |-> amount,
         price |-> IF isStopOrTP THEN 0 ELSE price,
         stopPrice |-> IF isStopOrTP THEN price ELSE 0,
         timeInForce |-> IF opts.type = "Limit" THEN "GTC" ELSE "none",
         closePosition |-> isStopOrTP,
         reduceOnly |-> reduceOnly /\ ~isStopOrTP,
         callbackRate |-> 0,
         priceProtect |-> FALSE]

\* lines 816-828: the lots of the amount and the remainder lot
Lots(req, market) ==
    LET amount == req.quantity
        lots == IF amount > market.maxSize THEN CeilDiv(amount, market.maxSize) ELSE 1
        rest == IF amount > market.maxSize
                THEN Adjust(amount % market.maxSize, market.pAmount) ELSE 0
        lotSize == Adjust((amount - rest) \div lots, market.pAmount)
    IN  [k \in 1..lots |-> [req EXCEPT !.quantity = lotSize]]
        \o (IF rest # 0 THEN <<[req EXCEPT !.quantity = rest]>> ELSE <<>>)

\* lines 830-854: the stop-loss or take-profit order attached to the intent
Attached(req, opts, type, stop) ==
    IF stop = 0 THEN <<>>
    ELSE <<[req EXCEPT !.price = 0, !.side = OppositeSide(opts.side),
                       !.type = type, !.stopPrice = stop,
                       !.timeInForce = "GTC", !.closePosition = TRUE]>>

\* the mark of a callbackRate that is NaN (the intent has no price)
NaNRate == 0 - 1

\* line 890: Math.round(((priceDistance * 100) / ticker.last) * 10) / 10, in
\* tenths of a percent
CallbackRate(priceDistance, last) == (2 * 1000 * priceDistance + last) \div (2 * last)

\* lines 866-904: the trailing stop of the position on the other side
FormatCreateTrailingStopLossOrder(hedged, opts) ==
    LET pSide == IF opts.side = "Buy" THEN "short" ELSE "long"
        held == {i \in DOMAIN positions :
                    positions[i].symbol = opts.symbol /\ positions[i].side = pSide}
    IN  IF opts.symbol \notin markets \/ ~HasTicker(opts.symbol) \/ held = {}
        THEN [thrown |-> TRUE, payloads |-> <<>>]
        ELSE LET position == positions[CHOOSE i \in held : \A j \in held : i <= j]
                 last == LastOf(opts.symbol)
                 priceDistance == Adjust(Abs(last - opts.price),
                                         MarketOf(opts.symbol).pPrice)
             IN  [thrown |-> FALSE,
                  payloads |->
                    <<[symbol |-> opts.symbol,
                       positionSide |-> GetOrderPositionSide(hedged, opts),
                       side |-> OrderSideOf(opts.side),
                       type |-> "TrailingStopLoss",
                       quantity |-> position.contracts,
                       price |-> 0, stopPrice |-> 0, timeInForce |-> "none",
                       closePosition |-> FALSE, reduceOnly |-> FALSE,
                       callbackRate |-> IF opts.price = 0 THEN NaNRate
                                        ELSE CallbackRate(priceDistance, last),
                       priceProtect |-> TRUE]>>]

\* lines 765-864: the payloads of a simple intent, before their client ids
FormatCreateOrder(hedged, opts) ==
    IF opts.type = "TrailingStopLoss"
    THEN FormatCreateTrailingStopLossOrder(hedged, opts)
    ELSE IF opts.symbol \notin markets
    THEN [thrown |-> TRUE, payloads |-> <<>>]
    ELSE LET req == Request(hedged, opts)
         IN  [thrown |-> FALSE,
              payloads |-> Lots(req, MarketOf(opts.symbol))
                           \o Attached(req, opts, "StopLoss", opts.stopLoss)
                           \o Attached(req, opts, "TakeProfit", opts.takeProfit)]

\* formatCreateOrder is called: the payloads, each with a fresh client id
\* (uuid(), lines 859-861 and 900)
Format(opts) ==
    /\ formats < MaxFormats
    /\ formats' = formats + 1
    /\ LET r == FormatCreateOrder(isHedged, opts)
       IN  /\ intent' = [type |-> opts.type, opts |-> opts, thrown |-> r.thrown]
           /\ fmtPayloads' = [k \in DOMAIN r.payloads |->
                                [payload |-> r.payloads[k],
                                 newClientOrderId |-> <<formats + 1, k>>]]
    /\ UNCHANGED <<placed, updVars>>
    /\ UNCHANGED <<queueVars, wsVars, storeVars, exchVars, streamVars>>

----------------------------------------------------------------------------
(* BinanceExchange.placeOrdersFast, binance.exchange.ts:640-653            *)
(* (placeSplitOrder, lines 627-638, is the same after its formatter)       *)

\* the order lists callers pass: one or two plain Buy Limit intents, on a
\* listed symbol or on an unlisted one
PlaceIntents ==
    {o \in Intents : /\ o.type = "Limit" /\ o.side = "Buy" /\ o.price # 0
                     /\ o.amount = 120 /\ ~o.reduceOnly
                     /\ o.stopLoss = 0 /\ o.takeProfit = 0}

OrderLists ==
    {<<a>> : a \in PlaceIntents} \cup {<<a, b>> : a, b \in PlaceIntents}

\* some intent of the list fails formatting
FailsFormatting(hedged, os) ==
    \E k \in DOMAIN os : FormatCreateOrder(hedged, os[k]).thrown

\* faulty variant: an intent that fails formatting is skipped
RequestsOfFormattable(hedged, os) ==
    [thrown |-> FALSE,
     payloads |-> Flatten([k \in DOMAIN os |->
                              FormatCreateOrder(hedged, os[k]).payloads])]

\* line 641: orders.flatMap((o) => this.formatCreateOrder(o)); an intent that
\* throws ends the call
Requests(hedged, os) ==
    [thrown |-> FailsFormatting(hedged, os),
     payloads |-> Flatten([k \in DOMAIN os |->
                              FormatCreateOrder(hedged, os[k]).payloads])]

\* lines 640-644: the call formats its intents and reaches the mutex of
\* enqueueOrders, or is rejected with the formatter's error
PlaceOrdersFast(os) ==
    /\ Len(placed) < MaxPlacements
    /\ LET r == Requests(isHedged, os)
           failed == FailsFormatting(isHedged, os)
       IN  IF r.thrown
           THEN /\ placed' = Append(placed, [call |-> 0, failed |-> failed,
                                             pc |-> "thrown", n |-> 0,
                                             returned |-> <<>>])
                /\ UNCHANGED <<calls, waiters>>
           ELSE /\ calls' = calls + 1
                /\ waiters' = Append(waiters, EnqWaiter(calls + 1, Len(r.payloads)))
                /\ placed' = Append(placed, [call |-> calls + 1, failed |-> failed,
                                             pc |-> "enqueue",
                                             n |-> Len(r.payloads),
                                             returned |-> <<>>])
    /\ UNCHANGED <<clock, queue, processing, tasks, w10, w60, batches, inflight,
                   results, emitted, drained, stalls, errors>>
    /\ UNCHANGED <<intent, fmtPayloads, formats, updVars>>
    /\ UNCHANGED <<wsVars, storeVars, exchVars, streamVars>>

\* line 644: the await of enqueueOrders has resolved for placement i
Enqueued(i) ==
    /\ placed[i].pc = "enqueue"
    /\ \A w \in DOMAIN waiters :
          ~(waiters[w].kind = "enq" /\ waiters[w].id = placed[i].call)

\* lines 647-652: a test of isProcessing() finds the flag down, at the first
\* test or after a 100 ms timer, and the call returns getResults()
PlaceReturns(i) ==
    /\ i \in DOMAIN placed
    /\ Enqueued(i)
    /\ ~IsProcessing
    /\ placed' = [placed EXCEPT ![i].pc = "returned", ![i].returned = results]
    /\ drained' = Append(drained, [ids |-> results, completions |-> Completions])
    /\ results' = ResultsAfterGet(results)
    /\ UNCHANGED <<clock, calls, queue, waiters, processing, tasks, w10, w60,
                   batches, inflight, emitted, stalls, errors>>
    /\ UNCHANGED <<intent, fmtPayloads, formats, updVars>>
    /\ UNCHANGED <<wsVars, storeVars, exchVars, streamVars>>

----------------------------------------------------------------------------
(* BinanceExchange.updateOrder, binance.exchange.ts:601-616, with          *)
(* cancelOrders (548-585), placeOrder (617-620) and placeOrderBatch        *)
(* (926-956).  An id is a pair; the ids of the new orders are fresh.       *)

NoId == <<0, 0>>

\* the open orders of the store: a Buy Limit of 2 at 100 on BTCUSDT and one
\* on a symbol the catalog no longer lists
StoredOrders ==
    <<[id |-> <<0, 1>>, status |-> "open", symbol |-> "BTCUSDT", type |-> "Limit",
       side |-> "Buy", price |-> 10000, amount |-> 200, filled |-> 0,
       remaining |-> 200, reduceOnly |-> FALSE],
      [id |-> <<0, 2>>, status |-> "open", symbol |-> "XRPUSDT", type |-> "Limit",
       side |-> "Buy", price |-> 10000, amount |-> 200, filled |-> 0,
       remaining |-> 200, reduceOnly |-> FALSE]>>

\* the update of a call: a new price, a new amount or both (0: the key is
\* not in the update)
Updates ==
    {[price |-> 10100, amount |-> 0], [price |-> 0, amount |-> 300],
     [price |-> 10100, amount |-> 300]}

\* lines 602-612: the order to place instead of the original
UpdatedOrder(order, update) ==
    [symbol |-> order.symbol, type |-> order.type, side |-> order.side,
     price |-> IF update.price # 0 THEN update.price ELSE order.price,
     amount |-> IF update.amount # 0 THEN update.amount ELSE order.amount,
     reduceOnly |-> order.reduceOnly, stopLoss |-> 0, takeProfit |-> 0]

\* lines 614-615: cancelOrders catches a failed request (582-584) and
\* resolves, so placeOrder is called whether the cancellation succeeded or not
PlacesAfterCancel(ok) == TRUE

\* lines 601-614 and 548-563: updateOrder is called for the stored order at
\* index o; the DELETE of the original is sent
UpdateOrder(o, update) ==
    /\ Len(updates) < MaxUpdates
    /\ o \in DOMAIN orders
    /\ updates' = Append(updates,
                         [pc |-> "cancel", order |-> orders[o],
                          newOrder |-> UpdatedOrder(orders[o], update),
                          cancelled |-> "none", posted |-> FALSE,
                          newId |-> NoId])
    /\ UNCHANGED <<venueLive, intent, fmtPayloads, formats, placed>>
    /\ UNCHANGED <<queueVars, wsVars, storeVars, exchVars, streamVars>>

\* lines 563-584, then 615, 617-619 and 926-932: the DELETE ends; the order
\* is removed from the store after a success, an error is emitted after a
\* failure; the replacement is formatted (one payload) and its POST is sent
CancelDone(i, ok) ==
    /\ i \in DOMAIN updates
    /\ updates[i].pc = "cancel"
    /\ ok => updates[i].order.id \in venueLive
    /\ IF ok
       THEN /\ venueLive' = venueLive \ {updates[i].order.id}
            /\ orders' = RemoveOrder(orders, updates[i].order.id)
            /\ UNCHANGED errorEvents
       ELSE /\ errorEvents' = errorEvents + 1
            /\ UNCHANGED <<venueLive, orders>>
    /\ LET f == FormatCreateOrder(isHedged, updates[i].newOrder)
           posts == PlacesAfterCancel(ok) /\ ~f.thrown
       IN  updates' = [updates EXCEPT ![i] =
                         [@ EXCEPT !.cancelled = IF ok THEN "ok" ELSE "fail",
                                   !.pc = IF ~PlacesAfterCancel(ok) THEN "done"
                                          ELSE IF f.thrown THEN "thrown"
                                          ELSE "post",
                                   !.posted = posts,
                                   !.newId = IF posts THEN <<i, 1>> ELSE NoId]]
    /\ UNCHANGED <<isDisposed, fills, msgs, lastMsg>>
    /\ UNCHANGED <<markets, positions, balance, tickers, loaded, isHedged>>
    /\ UNCHANGED <<intent, fmtPayloads, formats, placed>>
    /\ UNCHANGED <<queueVars, exchVars, streamVars>>

\* lines 930-936: the POST of the replacement ends; the venue holds the new
\* order after a success, an error is emitted after a failure
PostDone(i, ok) ==
    /\ i \in DOMAIN updates
    /\ updates[i].pc = "post"
    /\ updates' = [updates EXCEPT ![i].pc = "done"]
    /\ IF ok
       THEN /\ venueLive' = venueLive \cup {updates[i].newId}
            /\ UNCHANGED errorEvents
       ELSE /\ errorEvents' = errorEvents + 1
            /\ UNCHANGED venueLive
    /\ UNCHANGED <<markets, positions, balance, tickers, loaded, isHedged>>
    /\ UNCHANGED <<intent, fmtPayloads, formats, placed>>
    /\ UNCHANGED <<queueVars, wsVars, exchVars, streamVars>>

----------------------------------------------------------------------------
(* Specifications.                                                         *)

InitWs ==
    /\ orders = <<>>
    /\ isDisposed = FALSE
    /\ fills = 0
    /\ msgs = 0
    /\ lastMsg = NoMsg

\* orderQueueManager.ts:7-12: the fields as constructed
InitQueue ==
    /\ clock = 0
    /\ calls = 0
    /\ queue = <<>>
    /\ waiters = <<>>
    /\ processing = FALSE
    /\ tasks = <<>>
    /\ w10 = <<>>
    /\ w60 = <<>>
    /\ batches = <<>>
    /\ inflight = {}
    /\ results = <<>>
    /\ emitted = <<>>
    /\ drained = <<>>
    /\ stalls = 0
    /\ errors = 0

\* the store before start() (store code outside these sources)
InitStore ==
    /\ markets = {}
    /\ positions = <<>>
    /\ balance = NoBalance
    /\ tickers = {}
    /\ loaded = {}
    /\ isHedged = FALSE
    /\ errorEvents = 0

\* no ping was sent and no timer set
InitPing ==
    /\ pingAt = 0
    /\ pingTimeoutId = 0
    /\ timeouts = <<>>
    /\ latencyMs = 0
    /\ pingLog = <<>>
    /\ echoLog = <<>>

\* binance.exchange.ts:68-80: nothing is running
InitExch ==
    /\ startPc = "idle"
    /\ tickPc = "idle"
    /\ ticks = 0
    /\ tickLast = "none"
    /\ modePc = "idle"
    /\ modeCalls = <<>>
    /\ acctLast = NoAccount
    /\ acctEvents = 0

InitStream ==
    /\ keyPc = "none"
    /\ keyTimer = FALSE
    /\ putPc = FALSE
    /\ puts = 0
    /\ socket = "none"
    /\ pingTimer = FALSE
    /\ pings = 0
    /\ echoes = 0
    /\ latency = 0
    /\ InitPing

NoIntent == [type |-> "none"]

InitFmt ==
    /\ intent = NoIntent
    /\ fmtPayloads = <<>>
    /\ formats = 0
    /\ placed = <<>>
    /\ venueLive = {}
    /\ updates = <<>>

Init ==
    /\ InitQueue
    /\ InitWs
    /\ InitStore
    /\ InitExch
    /\ InitStream
    /\ InitFmt

Sizes == (0..MaxSize) \cup {BigSize}

\* A first call of BigSize payloads, later ones of MaxSize, the venue's answers
\* and the caller's getResults.
Next ==
    \/ Call(IF calls = 0 THEN BigSize ELSE MaxSize, SubmitCalls)
    \/ Enqueue
    \/ Dispatch
    \/ \E t \in DOMAIN tasks : TimerFire(t)
    \/ \E t \in DOMAIN tasks : Resume(t)
    \/ \E b \in inflight : Resolve(b)
    \/ GetResults

Spec == Init /\ [][Next]_vars

\* The queue and its loop alone: the submissions stay in flight.
NextLoop ==
    \/ \E n \in Sizes : Call(n, MaxCalls)
    \/ Enqueue
    \/ Dispatch
    \/ \E t \in DOMAIN tasks : TimerFire(t)
    \/ \E t \in DOMAIN tasks : Resume(t)

SpecLoop == Init /\ [][NextLoop]_vars

\* The saturation scenario: Flood payloads enqueued at t = 0 on a fresh queue,
\* in one call or in one call each, timers firing on time.
NextFlood ==
    \/ (calls = 0 /\ Call(Flood, MaxCalls))
    \/ CallEach(Flood)
    \/ Enqueue
    \/ Dispatch
    \/ \E t \in DOMAIN tasks : TimerFire(t)
    \/ \E t \in DOMAIN tasks : Resume(t)

SpecFlood == Init /\ [][NextFlood]_vars

\* A flood during which the event loop may be busy for StallMs.
NextStall ==
    \/ (calls = 0 /\ Call(StallFlood, MaxCalls))
    \/ Enqueue
    \/ Dispatch
    \/ \E t \in DOMAIN tasks : TimerFire(t)
    \/ \E t \in DOMAIN tasks : Resume(t)
    \/ Elapse(StallMs)

SpecStall == Init /\ [][NextStall]_vars

\* The flood with calls of MaxSize payloads arriving at any moment after it, under the
\* fairness of the event loop: a pending continuation and a due timer run.
NextLive ==
    \/ (calls = 0 /\ Call(Flood, LiveCalls))
    \/ (calls > 0 /\ Call(MaxSize, LiveCalls))
    \/ Enqueue
    \/ Dispatch
    \/ \E t \in DOMAIN tasks : TimerFire(t)
    \/ \E t \in DOMAIN tasks : Resume(t)

Fairness ==
    /\ WF_vars(Enqueue)
    /\ WF_vars(Dispatch)
    /\ WF_vars(\E t \in DOMAIN tasks : TimerFire(t))
    /\ WF_vars(\E t \in DOMAIN tasks : Resume(t))

SpecLive == Init /\ [][NextLive]_vars /\ Fairness

\* One call of BigSize payloads, a later one of MaxSize, and submissions that
\* resolve with the venue's answers or reject, under the same fairness.
NextFail ==
    \/ (calls = 0 /\ Call(BigSize, LiveCalls))
    \/ (calls > 0 /\ Call(MaxSize, LiveCalls))
    \/ Enqueue
    \/ Dispatch
    \/ \E t \in DOMAIN tasks : TimerFire(t)
    \/ \E t \in DOMAIN tasks : Resume(t)
    \/ \E b \in inflight : Resolve(b)
    \/ \E b \in inflight : Reject(b)

SpecFail == Init /\ [][NextFail]_vars /\ Fairness

\* The private stream: messages in any order until disposal.
NextWs ==
    \/ \E m \in Messages : OnMessage(m)
    \/ Dispose

SpecWs == Init /\ [][NextWs]_vars

\* Startup and the ticks, with disposal at any moment.
NextStart ==
    \/ StartCall
    \/ \E c \in VenueMarkets : \E ok \in BOOLEAN : MarketsDone(ok, c)
    \/ \E ok \in BOOLEAN : TickersDone(ok)
    \/ \E reply \in {"true", "false", "fail"} : PositionModeDone(reply)
    \/ TickTimer
    \/ \E data \in AccountReplies : TickDone(data)
    \/ \E ok \in BOOLEAN : OrdersDone(ok)
    \/ Dispose

SpecStart == Init /\ [][NextStart]_vars

\* A started exchange: the catalog and the tickers are loaded, the mode is
\* the account's, the first tick has stored an account and the next is scheduled.
InitStarted ==
    /\ markets \in VenueMarkets
    /\ tickers = {t \in VenueTickers : t.symbol \in markets}
    /\ \E data \in AccountReplies :
         /\ data.http = "ok"
         /\ ~TickerMissing(data)
         /\ positions = PositionsOf(data)
         /\ balance = BalanceOf(data)
    /\ loaded = {"markets", "tickers", "balance", "positions", "orders"}
    /\ isHedged \in BOOLEAN
    /\ errorEvents = 0
    /\ startPc = "done"
    /\ tickPc = "timer"
    /\ ticks = 1
    /\ tickLast = "ok"
    /\ modePc = "idle"
    /\ modeCalls = <<>>
    /\ acctLast = NoAccount
    /\ acctEvents = 0

InitAcct ==
    /\ InitQueue
    /\ InitWs
    /\ InitStarted
    /\ InitStream
    /\ InitFmt

\* The account of a started exchange between two ticks: the account events
\* of the private stream and changePositionMode.
NextAcct ==
    \/ \E ev \in AccountEvents : OnAccountMessage(ev)
    \/ \E hedged \in BOOLEAN : ChangePositionMode(hedged)
    \/ \E ok \in BOOLEAN : ModeDone(ok)

SpecAcct == InitAcct /\ [][NextAcct]_vars

\* The order events and the account events the stream delivers while it is
\* watched for its connection, ping and listen key.
StreamMessages ==
    {m \in Messages : /\ m.e = "ORDER_TRADE_UPDATE"
                      /\ m.X \in {"NEW", "FILLED"}
                      /\ m.c = 1 /\ m.p = 10 /\ m.sp = 0 /\ m.z = 0}

StreamEvents ==
    {ev \in AccountEvents :
        \/ ev.P = <<AccountSlot("BTCUSDT", "LONG", 50, 11, 1)>>
        \/ ev.P = <<>> /\ ev.B = <<[a |-> "USDT", wb |-> 7]>>}

\* start() has called connectAndSubscribe (line 135): the POST of the listen
\* key is under way
InitListening ==
    /\ keyPc = "post"
    /\ keyTimer = FALSE
    /\ putPc = FALSE
    /\ puts = 0
    /\ socket = "none"
    /\ pingTimer = FALSE
    /\ pings = 0
    /\ echoes = 0
    /\ latency = 0
    /\ InitPing

\* a started exchange on a hedged account, with a long and a short entry
InitStreaming ==
    /\ InitQueue
    /\ InitWs
    /\ InitStarted
    /\ isHedged
    /\ markets = {"BTCUSDT"}
    /\ Len(positions) > 1
    /\ InitListening
    /\ InitFmt

\* The private stream of a started exchange: its listen key, socket, ping and
\* messages, with disposal at any moment.
NextStream ==
    \/ \E ok \in BOOLEAN : KeyPosted(ok)
    \/ KeyTimerFire
    \/ \E ok \in BOOLEAN : PutDone(ok)
    \/ OnOpen
    \/ OnEcho
    \/ PingTimerFire
    \/ \E m \in StreamMessages : OnMessage(m)
    \/ \E ev \in StreamEvents : OnAccountMessage(ev)
    \/ Dispose

SpecStream == InitStreaming /\ [][NextStream]_vars

\* the ms between two events of the stream: the echo of the scenario, one
\* with an odd round trip
EchoDelays == {80, 81}

\* a started exchange whose private socket has been created
InitPinging ==
    /\ InitQueue
    /\ InitWs
    /\ InitStarted
    /\ isHedged
    /\ markets = {"BTCUSDT"}
    /\ Len(positions) > 1
    /\ keyPc = "held"
    /\ keyTimer = TRUE
    /\ putPc = FALSE
    /\ puts = 0
    /\ socket = "connecting"
    /\ pingTimer = FALSE
    /\ pings = 0
    /\ echoes = 0
    /\ latency = 0
    /\ InitPing
    /\ InitFmt

\* The ping protocol in time: the socket opens, messages of id 42 arrive singly
\* or in quick succession, the timers fire when due, with disposal at any moment.
NextPing ==
    \/ OnOpenAt
    \/ \E d \in EchoDelays : OnEchoAfter(d)
    \/ PingTimeout
    \/ Dispose

SpecPing == InitPinging /\ [][NextPing]_vars

\* a started exchange whose catalog lists BTCUSDT only; a hedged account
\* holds a long and a short entry, a one-way account a single one
InitFormatting ==
    /\ InitQueue
    /\ InitWs
    /\ InitStarted
    /\ markets = {"BTCUSDT"}
    /\ isHedged <=> Len(positions) > 1
    /\ InitStream
    /\ InitFmt

\* The formatter on the store of a started exchange.
NextFmt == \E opts \in Intents : Format(opts)

SpecFmt == InitFormatting /\ [][NextFmt]_vars

\* a started exchange on a flat one-way account and a fresh queue
InitPlacing ==
    /\ InitFormatting
    /\ ~isHedged
    /\ ~BlocksMode(positions)

\* Placement calls that overlap, the queue's loop and the venue's answers.
NextPlace ==
    \/ \E os \in OrderLists : PlaceOrdersFast(os)
    \/ Enqueue
    \/ Dispatch
    \/ \E t \in DOMAIN tasks : TimerFire(t)
    \/ \E t \in DOMAIN tasks : Resume(t)
    \/ \E b \in inflight : Resolve(b)
    \/ \E i \in DOMAIN placed : PlaceReturns(i)

SpecPlace == InitPlacing /\ [][NextPlace]_vars

\* a started exchange on a flat one-way account whose store holds the open
\* orders that are live at the venue
InitUpdating ==
    /\ InitQueue
    /\ orders = StoredOrders
    /\ isDisposed = FALSE
    /\ fills = 0
    /\ msgs = 0
    /\ lastMsg = NoMsg
    /\ InitStarted
    /\ markets = {"BTCUSDT"}
    /\ ~isHedged
    /\ ~BlocksMode(positions)
    /\ InitStream
    /\ intent = NoIntent
    /\ fmtPayloads = <<>>
    /\ formats = 0
    /\ placed = <<>>
    /\ venueLive = {StoredOrders[k].id : k \in DOMAIN StoredOrders}
    /\ updates = <<>>

\* updateOrder calls, one after the other or overlapping, and the venue's
\* answers to the DELETE and to the POST.
NextUpdate ==
    \/ \E o \in DOMAIN orders, update \in Updates : UpdateOrder(o, update)
    \/ \E i \in DOMAIN updates, ok \in BOOLEAN : CancelDone(i, ok)
    \/ \E i \in DOMAIN updates, ok \in BOOLEAN : PostDone(i, ok)

SpecUpdate == InitUpdating /\ [][NextUpdate]_vars

----------------------------------------------------------------------------
(* Properties.                                                             *)

\* the payloads handed to the submit function, in hand-off order
Handed == Flatten([b \in DOMAIN batches |-> batches[b].ids])

\* number of payloads handed over so far
HandedCount ==
    Cardinality({<<b, k>> \in (DOMAIN batches) \X (1..LotSize) :
                    k <= Len(batches[b].ids)})

\* number of payloads handed over in the interval (T - win, T]
HandedWithin(win, T) ==
    Cardinality({<<b, k>> \in (DOMAIN batches) \X (1..LotSize) :
                    /\ k <= Len(batches[b].ids)
                    /\ T - win < batches[b].at
                    /\ batches[b].at <= T})

\* C1: whatever the timing of the loop, no more than 300 payloads are handed
\* to the submit function within any trailing 10 seconds, and no more than
\* 1200 within any trailing 60 seconds.
C1_RateLimit ==
    \A j \in DOMAIN batches :
        /\ HandedWithin(Win10, batches[j].at) <= Cap10
        /\ HandedWithin(Win60, batches[j].at) <= Cap60

\* C2: at most one processing task runs at any time.
C2_OneTask == Cardinality(DOMAIN tasks) <= 1

\* C2 witness: a call pushed payloads while the only task was between the
\* return of processOrders and the test of startProcessing
C2_Witness ==
    /\ calls >= 2
    /\ \E t \in DOMAIN tasks : tasks[t].pc = "ret" /\ queue # <<>>

\* C3: every payload is handed over at most once, the payloads of a call are
\* handed over in their order, and the payloads of two calls do not interleave.
C3_Fifo ==
    \A i, j \in DOMAIN Handed :
        i < j =>
            /\ Handed[i] # Handed[j]
            /\ Handed[i][1] = Handed[j][1] =>
                 /\ Handed[i][2] < Handed[j][2]
                 /\ \A m \in i..j : Handed[m][1] = Handed[i][1]

\* C3 witness: one batch carried the end of a call and the start of the next,
\* and a call was handed over in more than one batch
C3_Witness ==
    /\ \E b \in DOMAIN batches :
         \E i, j \in DOMAIN batches[b].ids : batches[b].ids[i][1] # batches[b].ids[j][1]
    /\ \E a, b \in DOMAIN batches :
         a # b /\ batches[a].ids[1][1] = batches[b].ids[1][1]

\* the payloads of the calls that wait for the mutex
RECURSIVE PendingCount(_)
PendingCount(ws) ==
    IF ws = <<>> THEN 0 ELSE Len(Head(ws).orders) + PendingCount(Tail(ws))

\* payloads passed to enqueueOrders so far, wherever they are now
Total == PendingCount(waiters) + Len(queue) + HandedCount

Quiet ==
    /\ waiters = <<>>
    /\ queue = <<>>
    /\ DOMAIN tasks = {}
    /\ ~IsProcessing

\* C4: once the calls stop, every payload passed to enqueueOrders is handed
\* to the submit function (no step loses a payload, and the queue ends up
\* empty with nothing pending), isProcessing() ends up false for good, and
\* at no time do payloads sit in the queue while isProcessing() is false.
C4_Drains ==
    /\ [](~IsProcessing => queue = <<>>)
    /\ [][calls' = calls => Total' = Total]_vars
    /\ <>[]Quiet

\* C4 witness: the flood and a later call were handed over in full, through
\* the saturation of the 60-second window, and the loop has ended
C4_Witness ==
    /\ Quiet
    /\ calls = LiveCalls
    /\ HandedCount > Flood
    /\ clock > Win60

\* the outcomes batchResolved has reported for payload p
Outcomes(p) ==
    {emitted[b][n][i].error :
        <<b, n, i>> \in {x \in (DOMAIN emitted) \X (1..2) \X (1..LotSize) :
                            /\ x[2] <= Len(emitted[x[1]])
                            /\ x[3] <= Len(emitted[x[1]][x[2]])
                            /\ emitted[x[1]][x[2]][x[3]].orderId = p}}

\* number of times a successful outcome of p was reported
Successes(p) ==
    Cardinality({x \in (DOMAIN emitted) \X (1..2) \X (1..LotSize) :
                    /\ x[2] <= Len(emitted[x[1]])
                    /\ x[3] <= Len(emitted[x[1]][x[2]])
                    /\ emitted[x[1]][x[2]][x[3]].orderId = p
                    /\ emitted[x[1]][x[2]][x[3]].error = "null"})

\* the ids getResults has returned so far, in order
Drained == Flatten([i \in DOMAIN drained |-> drained[i].ids])

\* C5: getResults returns the buffer and empties it: a call returns the empty
\* list when no submission completed since the call before it, and every id
\* reported successful is returned by exactly one call or is still in the
\* buffer, no other id ever being returned.
C5_DrainOnce ==
    /\ \A i \in DOMAIN drained :
         i > 1 /\ drained[i].completions = drained[i - 1].completions
            => drained[i].ids = <<>>
    /\ \A p \in Range(Handed) : Count(Drained \o results, p) = Successes(p)
    /\ Range(Drained \o results) \subseteq Range(Handed)

\* C5 witness: a call returned ids and the next call, with no completion in
\* between, returned none
C5_Witness ==
    /\ Len(drained) >= 2
    /\ drained[1].ids # <<>>
    /\ drained[2].completions = drained[1].completions

\* C6: a payload whose outcome carries an error is not in the queue, was
\* handed over once only, and its id is neither in the results buffer nor in
\* any list getResults returned; every id there had the outcome null.
C6_NoRetry ==
    /\ \A p \in Range(Handed) :
         Outcomes(p) \ {"null"} # {} =>
            /\ p \notin Range(queue)
            /\ Count(Handed, p) = 1
            /\ p \notin Range(Drained \o results)
    /\ \A p \in Range(Drained \o results) : Outcomes(p) = {"null"}

\* C6 witness: one batch resolved with an accepted and a refused payload
\* while payloads were still queued
C6_Witness ==
    /\ queue # <<>>
    /\ results # <<>>
    /\ \E p \in Range(Handed) : Outcomes(p) = {"code"}

ErrorReported == \E p \in Range(Handed) : Outcomes(p) \ {"null"} # {}

\* a submission resolved with an error on a payload, or rejected
Failed == ErrorReported \/ errors > 0

\* C7: a failing submission does not stop the loop: its completion, resolved
\* or rejected, leaves the queue, the task and the flag as they were,
\* isProcessing() stays true while payloads are queued, and these payloads are
\* handed over later.
C7_LoopSurvives ==
    /\ [][inflight' # inflight /\ Len(batches') = Len(batches)
            => queue' = queue /\ tasks' = tasks /\ waiters' = waiters
               /\ processing' = processing]_vars
    /\ [](Failed /\ queue # <<>> => IsProcessing /\ DOMAIN tasks # {})
    /\ (Failed /\ queue # <<>>) ~> (queue = <<>> /\ HandedCount = Total)

\* C7 witness: a submission resolved with an error on a payload and another
\* one rejected while payloads are queued and the loop runs
C7_Witness ==
    /\ ErrorReported
    /\ errors > 0
    /\ queue # <<>>
    /\ IsProcessing

\* C8: batchResolved is emitted exactly once for every settled batch (and not
\* before), its outcome list holding exactly one {orderId, error} entry per
\* payload of the batch; an entry that carries the error of a failed request
\* comes with the same error on every payload of the lot.
C8_Outcomes ==
    \A b \in DOMAIN batches :
        IF b \in inflight THEN emitted[b] = <<>>
        ELSE /\ Len(emitted[b]) = 1
             /\ Len(emitted[b][1]) = Len(batches[b].ids)
             /\ \A i \in DOMAIN batches[b].ids :
                  Cardinality({j \in DOMAIN emitted[b][1] :
                                 emitted[b][1][j].orderId = batches[b].ids[i]}) = 1
             /\ \A i \in DOMAIN emitted[b][1] :
                  emitted[b][1][i].error = "msg"
                     => \A j \in DOMAIN emitted[b][1] : emitted[b][1][j].error = "msg"

\* the saturation scenario has run to its end
FloodDone == calls > 0 /\ Quiet /\ HandedCount = Flood

\* number of payloads handed over in the interval [0, T)
HandedBefore(T) ==
    Cardinality({<<b, k>> \in (DOMAIN batches) \X (1..LotSize) :
                    k <= Len(batches[b].ids) /\ batches[b].at < T})

\* C9 as stated: of 1500 payloads enqueued at t = 0, exactly 300 are handed
\* over within [0, 10 s), exactly 1200 within [0, 60 s), and the rest after
\* the first entry has left the 60-second window.
C9_AsStated ==
    FloodDone =>
        /\ HandedBefore(Win10) = Cap10
        /\ HandedBefore(Win60) = Cap60
        /\ \A b \in DOMAIN batches :
             batches[b].at >= Win60 => batches[b].at - batches[1].at >= Win60

\* C9 amended: exactly 59 batches are handed over within [0, 10 s), the 60th
\* at t = 10 s: 295 payloads (one lot short of 300) when the flood came in one
\* call, 291 when it came in one call per payload (the first batch then holds
\* one payload); exactly 1200 are handed over within [0, 60 s), and the rest,
\* Flood - 1200, after the first entry has left the 60-second window.
C9_Saturation ==
    FloodDone =>
        /\ HandedBefore(Win10) = IF calls = 1 THEN Cap10 - LotSize
                                                ELSE Cap10 - 2 * LotSize + 1
        /\ batches[Cap10 \div LotSize].at = batches[1].at + Win10
        /\ HandedBefore(Win60) = Cap60
        /\ HandedCount - HandedBefore(Win60) = Flood - Cap60
        /\ \A b \in DOMAIN batches :
             batches[b].at >= Win60 => batches[b].at - batches[1].at >= Win60

\* C9 witness: the flood was handed over in full, through the saturation of
\* both windows
C9_Witness == FloodDone /\ clock > Win60 /\ batches[1].at = 0

\* C10: right after the private stream handled an ORDER_TRADE_UPDATE of
\* status FILLED, CANCELED or EXPIRED for a client id, the store holds no
\* order of that id.
C10_Removed ==
    lastMsg.e = "ORDER_TRADE_UPDATE" /\ lastMsg.X \in {"FILLED", "CANCELED", "EXPIRED"}
        => \A i \in DOMAIN orders : orders[i].id # lastMsg.c

\* C10 witness: a FILLED event removed a stored order and left another one
C10_Witness ==
    /\ lastMsg.X = "FILLED"
    /\ lastMsg.removed = 1
    /\ orders # <<>>

\* C11: in every reachable store state, after any sequence of ticks and
\* ACCOUNT_UPDATE events (events with a negative venue amount included), every
\* stored position has contracts >= 0.
C11_NonNegative == \A i \in DOMAIN positions : positions[i].contracts >= 0

\* C12: handling the same ACCOUNT_UPDATE event twice in a row leaves the
\* store's positions and balance as handling it once did.
C12_Idempotent == acctLast.twice => acctLast.after = acctLast.once

\* an event that set a stored position's contracts and a stored asset's
\* balance has been handled twice in a row
C12_Witness ==
    /\ acctLast.twice
    /\ acctLast.after = <<positions, balance>>
    /\ \/ \E i \in DOMAIN positions :
            /\ acctLast.ev.P # <<>>
            /\ positions[i].contracts = acctLast.ev.P[1].pa
       \/ \E i \in DOMAIN balance.assets :
            /\ acctLast.ev.B # <<>>
            /\ balance.assets[i].symbol = acctLast.ev.B[1].a
            /\ balance.assets[i].walletBalance = acctLast.ev.B[1].wb

\* C17: changePositionMode called while the store holds a position with
\* non-zero contracts sends no hedge-mode request.
C17_ModeGuard ==
    \A i \in DOMAIN modeCalls : modeCalls[i].open => ~modeCalls[i].sent

\* C13: once the adapter is disposed, no callback of the private stream
\* (socket open, socket message, ping timer, listen-key renewal timer) updates
\* a store field, emits an event, sends a ping or issues a listen-key PUT.
C13_DisposedSilent ==
    [][isDisposed =>
          /\ UNCHANGED <<orders, positions, balance, latency, markets, tickers,
                         loaded, isHedged>>
          /\ UNCHANGED <<fills, lastMsg, acctLast, errorEvents>>
          /\ UNCHANGED pings
          /\ UNCHANGED <<puts, putPc>> \/ (putPc /\ ~putPc' /\ puts' = puts)]_vars

\* after disposal the socket opened, an order event and an account event
\* arrived and the renewal timer fired
C13_Witness ==
    /\ isDisposed
    /\ keyPc = "held" /\ ~keyTimer /\ ~putPc /\ puts = 0
    /\ socket = "open" /\ pings = 0
    /\ msgs > 0 /\ lastMsg = NoMsg
    /\ acctEvents > 0 /\ ~acctLast.seen
    /\ positions # <<>>

\* C14: once the listen key is held and while the adapter is not disposed, a
\* renewal is always pending (its 30-minute timer is set or its PUT is under
\* way), whatever the outcome of the earlier renewals.
C14_RenewalChain == keyPc = "held" /\ ~isDisposed => keyTimer \/ putPc

\* C15: once the adapter is disposed, start() and the tick it awaits write
\* nothing to the store: no markets, tickers or orders update, no isHedged
\* setting, no balance or positions update.
C15_NoWriteAfterDispose ==
    [][isDisposed =>
          UNCHANGED <<markets, tickers, orders, loaded, isHedged, balance,
                      positions>>]_vars

\* C16: when the account fetch of a tick fails, an error event is emitted, the
\* store's balance and positions stay as they were, and the next tick is
\* scheduled; until disposal a tick is always under way or scheduled.
C16_TickFailure ==
    /\ [][tickPc = "fetch" /\ tickPc' # "fetch" /\ tickLast' = "fail" =>
             /\ errorEvents' = errorEvents + 1
             /\ positions' = positions
             /\ balance' = balance
             /\ ~isDisposed => tickPc' = "timer"]_vars
    /\ [](ticks > 0 /\ ~isDisposed => tickPc \in {"fetch", "timer"})

\* a tick failed on a store that held positions and assets, and the next tick
\* is scheduled
C16_Witness ==
    /\ tickLast = "fail"
    /\ ticks > 1
    /\ ~isDisposed
    /\ tickPc = "timer"
    /\ errorEvents > 0
    /\ positions # <<>>
    /\ balance.assets # <<>>

\* the payloads formatted last, without their client ids
Formatted == [k \in DOMAIN fmtPayloads |-> fmtPayloads[k].payload]

\* the formatter returned payloads for an intent of the simple kind
FormattedSimple ==
    /\ intent.type \in {"Limit", "Market", "StopLoss", "TakeProfit"}
    /\ ~intent.thrown

\* a Buy Limit intent that is not reduceOnly, with stopLoss = 95, was
\* formatted on a hedged account
HedgedBuyLimitStop ==
    /\ FormattedSimple
    /\ isHedged
    /\ intent.type = "Limit"
    /\ intent.opts.side = "Buy"
    /\ ~intent.opts.reduceOnly
    /\ intent.opts.stopLoss = 9500

\* the primary payloads carry positionSide LONG, and one StopLoss payload is
\* attached: side SELL, the given positionSide, closePosition, stopPrice 95,
\* no price
PrimaryAndStop(pSide) ==
    /\ \A k \in DOMAIN Formatted :
          Formatted[k].type = "Limit" => Formatted[k].positionSide = "LONG"
    /\ \E k \in DOMAIN Formatted : Formatted[k].type = "Limit"
    /\ Cardinality({k \in DOMAIN Formatted : Formatted[k].type = "StopLoss"}) = 1
    /\ \A k \in DOMAIN Formatted :
          Formatted[k].type = "StopLoss" =>
             /\ Formatted[k].side = "SELL"
             /\ Formatted[k].positionSide = pSide
             /\ Formatted[k].closePosition
             /\ Formatted[k].stopPrice = 9500
             /\ Formatted[k].price = 0

\* C18 as stated: on a hedged account a Buy Limit intent with stopLoss = 95
\* yields a primary payload with positionSide LONG and an attached StopLoss
\* payload with side SELL, positionSide SHORT, closePosition true, stopPrice
\* 95 and no price.
C18_AsStated == HedgedBuyLimitStop => PrimaryAndStop("SHORT")

\* C18, amended: the attached StopLoss payload carries the positionSide of
\* the primary payload, LONG, with side SELL, closePosition true, stopPrice
\* 95 and no price.
C18_HedgedStop == HedgedBuyLimitStop => PrimaryAndStop("LONG")

C18_Witness ==
    /\ HedgedBuyLimitStop
    /\ formats > 0
    /\ intent.opts.price # 0
    /\ Len(fmtPayloads) = 2

\* the lots of the intent formatted last: the payloads of the intent's own
\* type, which come before the attached stops
LotsFormatted == SelectSeq(Formatted, LAMBDA q : q.type = intent.type)

RECURSIVE SumQuantity(_)
SumQuantity(ps) ==
    IF ps = <<>> THEN 0 ELSE Head(ps).quantity + SumQuantity(Tail(ps))

\* the amount of the intent snapped to the market's step
SnappedAmount ==
    Adjust(intent.opts.amount, MarketOf(intent.opts.symbol).pAmount)

\* C19: a simple intent whose snapped amount A exceeds the market's max
\* yields ceil(A/max) equal lots and at most one remainder lot, every lot at
\* most max, the lot quantities summing to A.
C19_LotsSum ==
    FormattedSimple /\ SnappedAmount > MarketOf(intent.opts.symbol).maxSize =>
        LET max == MarketOf(intent.opts.symbol).maxSize
            n == CeilDiv(SnappedAmount, max)
        IN  /\ Len(LotsFormatted) \in {n, n + 1}
            /\ \A k \in 1..n : LotsFormatted[k].quantity = LotsFormatted[1].quantity
            /\ \A k \in DOMAIN LotsFormatted : LotsFormatted[k].quantity <= max
            /\ SumQuantity(LotsFormatted) = SnappedAmount

\* C20: every payload the formatter emits has a quantity that is a positive
\* multiple of precision.amount and, when it has one, a price or stopPrice
\* that is a positive multiple of precision.price.
C20_Precision ==
    intent.type # "none" =>
        \A k \in DOMAIN Formatted :
            LET q == Formatted[k]
                market == MarketOf(q.symbol)
            IN  /\ q.quantity > 0
                /\ q.quantity % market.pAmount = 0
                /\ q.price # 0 => q.price > 0 /\ q.price % market.pPrice = 0
                /\ q.stopPrice # 0 =>
                      q.stopPrice > 0 /\ q.stopPrice % market.pPrice = 0

\* min(300 - |w10|, 1200 - |w60|, |queue|, 5)
Capacity(a10, a60, q) ==
    LET room10 == Cap10 - Len(a10)
        room60 == Cap60 - Len(a60)
        room == IF room10 <= room60 THEN room10 ELSE room60
        want == IF Len(q) <= LotSize THEN Len(q) ELSE LotSize
    IN  IF room <= want THEN room ELSE want

\* C23: each batch handed to the submit function holds
\* min(300 - |w10|, 1200 - |w60|, |queue|, 5) payloads as evaluated at the
\* start of the iteration, between 1 and 5; its timestamps enter both windows
\* with the hand-off; the windows never hold more than 300 and 1200 entries.
C23_Capacity ==
    /\ [](/\ Len(w10) <= Cap10
          /\ Len(w60) <= Cap60
          /\ \A b \in DOMAIN batches : Len(batches[b].ids) \in 1..LotSize)
    /\ [][\A t \in DOMAIN tasks' :
             /\ tasks'[t].pc = "acquire"
             /\ t \notin DOMAIN tasks \/ tasks[t].pc # "acquire"
             => tasks'[t].size = Capacity(w10', w60', queue')]_vars
    /\ [][Len(batches') > Len(batches) =>
             LET n == Len(batches'[Len(batches')].ids)
             IN  /\ \E t \in DOMAIN tasks :
                       tasks[t].pc = "acquire" /\ tasks[t].size = n
                 /\ Len(w10') = Len(w10) + n
                 /\ Len(w60') = Len(w60) + n]_vars

\* a batch smaller than a lot was handed over because a window had room for
\* no more
C23_Witness ==
    /\ Len(w10) = Cap10 \/ Len(w60) = Cap60
    /\ \E b \in DOMAIN batches :
          /\ Len(batches[b].ids) \in 2..(LotSize - 1)
          /\ b > 1
    /\ Len(queue) > 0

\* the first instant at which the oldest entry of every saturated window has
\* left its window: an entry ts is in the window while now - ts < win
SaturationEnds(a10, a60) ==
    LET end10 == IF Len(a10) >= Cap10 THEN a10[1] + Win10 ELSE 0
        end60 == IF Len(a60) >= Cap60 THEN a60[1] + Win60 ELSE 0
    IN  IF end10 >= end60 THEN end10 ELSE end60

\* C24: when a window is saturated the loop dispatches nothing and sleeps
\* until the oldest entry of the saturated window ages out: the sleep it
\* starts then ends at the first instant that entry leaves its window.
C24_SaturatedSleep ==
    [][\A t \in DOMAIN tasks' :
          /\ tasks'[t].pc = "sleep"
          /\ \/ t \notin DOMAIN tasks
             \/ tasks[t].pc # "acquire" /\ tasks'[t] # tasks[t]
          => /\ tasks'[t].wake = SaturationEnds(w10', w60')
             /\ batches' = batches]_vars

\* C29: outside the critical section of enqueueOrders, whenever the queue is
\* non-empty isProcessing() is true.
C29_QueueImpliesProcessing == queue # <<>> => IsProcessing

\* a call pushed payloads after processOrders returned and before
\* startProcessing tested the queue again
C29_Witness ==
    /\ queue # <<>>
    /\ IsProcessing
    /\ \E t \in DOMAIN tasks : tasks[t].pc = "ret"

\* C22: every payload of type StopLoss or TakeProfit that formatCreateOrder
\* emits, the intent's own or an attached one, carries closePosition = true
\* and neither a price nor a reduceOnly field, hedged or one-way.
C22_ClosingPayloads ==
    intent.type # "none" =>
        \A k \in DOMAIN Formatted :
            Formatted[k].type \in {"StopLoss", "TakeProfit"} =>
                /\ Formatted[k].closePosition
                /\ Formatted[k].price = 0
                /\ ~Formatted[k].reduceOnly

\* the position slots of an event that name the stored position p
SlotsNaming(ev, p) ==
    {k \in DOMAIN ev.P : /\ ev.P[k].ps \in PositionSideKeys
                         /\ ev.P[k].s = p.symbol
                         /\ PositionSideOf(ev.P[k].ps) = p.side}

\* C26: an ACCOUNT_UPDATE creates no position and no asset; a position that
\* no slot of the event names by (symbol, side) and an asset that no slot
\* names stay as they were; of a named position only entryPrice, contracts,
\* notional and unrealizedPnl may change.
C26_Frame ==
    [][acctEvents' # acctEvents =>
          /\ DOMAIN positions' = DOMAIN positions
          /\ \A i \in DOMAIN positions :
                /\ positions'[i].symbol = positions[i].symbol
                /\ positions'[i].side = positions[i].side
                /\ positions'[i].leverage = positions[i].leverage
                /\ positions'[i].liquidationPrice = positions[i].liquidationPrice
                /\ positions'[i] # positions[i] =>
                      /\ acctLast'.seen
                      /\ SlotsNaming(acctLast'.ev, positions[i]) # {}
          /\ DOMAIN balance'.assets = DOMAIN balance.assets
          /\ \A i \in DOMAIN balance.assets :
                /\ balance'.assets[i].symbol = balance.assets[i].symbol
                /\ balance'.assets[i] # balance.assets[i] =>
                      \E k \in DOMAIN acctLast'.ev.B :
                          acctLast'.ev.B[k].a = balance.assets[i].symbol]_vars

\* the event handled last named a stored position, which took the slot's
\* entry price and kept its leverage, and named a position that is not stored
C26_Witness ==
    /\ acctLast.seen
    /\ acctLast.after = <<positions, balance>>
    /\ \E k \in DOMAIN acctLast.ev.P : FindPosition(positions, acctLast.ev.P[k]) = 0
    /\ \E k \in DOMAIN acctLast.ev.P :
          LET i == FindPosition(positions, acctLast.ev.P[k])
          IN  /\ i # 0
              /\ positions[i].entryPrice = acctLast.ev.P[k].ep
              /\ positions[i].leverage = 20

\* C30: a loaded flag of the store is set only after the corresponding fetch
\* succeeded at least once.  The store starts without markets and without
\* orders and the venue lists some of each, so that a flag set after a
\* successful fetch finds the store holding what the venue listed.
C30_LoadedAfterFetch ==
    /\ "markets" \in loaded => markets # {}
    /\ "orders" \in loaded => orders # <<>>

\* C21: when an intent of a placeOrdersFast call fails formatting, the call
\* is rejected with the error, no payload of it is enqueued or submitted, and
\* the queue, the windows and the results buffer are unchanged.
C21_FormatErrorFatal ==
    /\ [](\A i \in DOMAIN placed :
             placed[i].failed => placed[i].pc = "thrown" /\ placed[i].call = 0)
    /\ [][Len(placed') > Len(placed) /\ placed'[Len(placed')].failed =>
             UNCHANGED <<queue, waiters, calls, w10, w60, results, batches,
                         inflight, processing, tasks>>]_vars

\* a call with a listed and an unlisted symbol was rejected while the
\* payloads of another call waited in the queue
C21_Witness ==
    /\ \E i \in DOMAIN placed : placed[i].failed /\ placed[i].pc = "thrown"
    /\ \E i \in DOMAIN placed : placed[i].pc = "enqueue"
    /\ placed[Len(placed)].failed
    /\ queue # <<>>

\* the payloads of placement i
PayloadsPlaced(i) == Range(Payloads(placed[i].call, placed[i].n))

\* C27: when placeOrdersFast returns, every batch that held payloads of the
\* call has resolved, and the returned list holds the client id of every
\* payload of the call that the venue accepted.
C27_ReturnsAccepted ==
    \A i \in DOMAIN placed :
        placed[i].pc = "returned" =>
            \A p \in PayloadsPlaced(i) :
                /\ p \notin Range(queue)
                /\ \A b \in inflight : p \notin Range(batches[b].ids)
                /\ Successes(p) > 0 => p \in Range(placed[i].returned)

\* C28: the list a placeOrdersFast call returns holds only client ids of
\* payloads of that call.
C28_OwnIdsOnly ==
    \A i \in DOMAIN placed :
        placed[i].pc = "returned" =>
            Range(placed[i].returned) \subseteq PayloadsPlaced(i)

\* number of pings sent at the instant t
PingsAt(t) == Cardinality({j \in DOMAIN pingLog : pingLog[j] = t})

\* the instant t is over: no timer that was due by then is still to fire
Passed(t) ==
    /\ clock >= t
    /\ \A i \in PendingTimeouts : timeouts[i].due > clock

\* every echo handled stored round((now - sentAt) / 2)
LatencyStored ==
    \A k \in DOMAIN echoLog :
        echoLog[k].handled =>
            echoLog[k].latency = RoundHalf(echoLog[k].at - echoLog[k].sentAt)

\* another echo was handled less than RePingMs after echo k
Superseded(k) ==
    \E m \in DOMAIN echoLog :
        /\ m > k
        /\ echoLog[m].handled
        /\ echoLog[m].at < echoLog[k].at + RePingMs

\* C25, as stated: at most one re-ping timer is pending, and each echo handled
\* stores round((now - sentAt) / 2) and causes exactly one ping RePingMs
\* later, also when echoes arrive in quick succession.
C25_AsStated ==
    /\ Cardinality(PendingTimeouts) <= 1
    /\ LatencyStored
    /\ \A k \in DOMAIN echoLog :
          ~isDisposed /\ Passed(echoLog[k].at + RePingMs) =>
              PingsAt(echoLog[k].at + RePingMs) = 1

\* C25, amended: at most one re-ping timer is pending; each echo handled
\* stores round((now - sentAt) / 2), sentAt being the instant of the last
\* ping, and clears the pending timer before it sets its own: on a stream
\* that is not disposed one ping follows RePingMs after an echo that no other
\* echo followed within that time, and none after an echo that one did.
C25_PingProtocol ==
    /\ Cardinality(PendingTimeouts) <= 1
    /\ LatencyStored
    /\ \A k \in DOMAIN echoLog :
          ~isDisposed /\ Passed(echoLog[k].at + RePingMs) =>
              PingsAt(echoLog[k].at + RePingMs) = IF Superseded(k) THEN 0 ELSE 1

\* the ping of t = 1000 was echoed at t = 1080 (latency 40) and once more
\* right after, and the one ping that followed has been sent
C25_Witness ==
    /\ ~isDisposed
    /\ Len(echoLog) >= 2
    /\ echoLog[1].at - echoLog[1].sentAt = 80
    /\ echoLog[1].latency = 40
    /\ Superseded(1)
    /\ ~Superseded(2)
    /\ Passed(echoLog[2].at + RePingMs)
    /\ PingsAt(echoLog[2].at + RePingMs) = 1
    /\ PingsAt(echoLog[1].at + RePingMs) = 0

\* C31: updateOrder submits the replacement only if the cancellation of the
\* original succeeded: after a failed cancel request no new order is placed
\* and the original stays in the store, and the original and the replacement
\* are never both live at the venue.
C31_CancelGate ==
    \A i \in DOMAIN updates :
        /\ updates[i].cancelled = "fail" =>
              /\ ~updates[i].posted
              /\ \E k \in DOMAIN orders : orders[k].id = updates[i].order.id
        /\ ~(updates[i].order.id \in venueLive /\ updates[i].newId \in venueLive)

====
